---------------------------- MODULE Spec2Model ----------------------------
(***************************************************************************)
(* A model of the presentation-agent pipeline                              *)
(* (src/presentation_agent): the orchestrator PresentationAgent._run_async *)
(* with its review gate, fact-check patch engine and slide-count retry,    *)
(* the concurrent per-slide image enrichment, and the layout selection     *)
(* table.                                                                  *)
(*                                                                         *)
(* Text is modelled as a sequence of one-character strings, so that        *)
(* substring search and replacement are computed, not assumed.             *)
(*                                                                         *)
(* The module holds several specifications over one set of variables:     *)
(*   Spec        the pipeline run (agent.py, script_reviewer.py,           *)
(*               fact_checker.py)                                          *)
(*   PatchSpec   FactChecker.apply_patches on drawn manuscripts/reports    *)
(*   ImageSpec   ImageService.enrich_slides_with_images, one task a slide  *)
(*   LayoutSpec  design_library.select_layout on drawn arguments           *)
(* A specification leaves the variables of the other parts at their idle   *)
(* values.                                                                 *)
(***************************************************************************)
EXTENDS Integers, Sequences, FiniteSets, TLC

VARIABLES
    \* ---- pipeline run (PresentationAgent._run_async) ----
    pc,             \* position of the run in _run_async
    duration,       \* user_input.duration_minutes
    draft,          \* manuscript returned by ScriptGenerator.generate
    manuscript,     \* the local variable `manuscript` of _run_async
    evaluation,     \* outcome of ScriptReviewer._evaluate in this run
    rewritten,      \* outcome of ScriptReviewer._rewrite in this run
    score,          \* second component returned by review_and_improve
    factInput,      \* manuscript handed to fact_check_and_patch
    factOutcome,    \* what happened inside fact_check_and_patch
    slideReturns,   \* the slide lists returned by SlideGenerator.generate, in call order
    slides,         \* the local variable `slides` of _run_async
    notesInput,     \* slide list handed to NotesGenerator.generate
    notesAnswer,    \* what the notes call answered
    calls,          \* number of calls made to each collaborator
    strictFlags,    \* strict_slide_count_retry of each SlideGenerator call
    progress,       \* (label, percent) events passed to _report
    result,         \* ExportResult being built
    slidesWithImages, \* list returned by enrich_slides_with_images
    outcome,        \* how the run ended
    raisedBy,       \* where the exception that ended the run came from
    observer,       \* what the progress callback of the run does when called
    \* ---- FactChecker.apply_patches on its own ----
    pm,             \* input manuscript
    pr,             \* report
    pout,           \* apply_patches(pm, pr)
    pout2,          \* apply_patches(pout, pr)
    pphase,         \* "drawn", "patched" or "repatched"
    \* ---- ImageService.enrich_slides_with_images ----
    islides,        \* the argument `slides`
    hasLlm,         \* whether the service was built with an llm_client
    tasks,          \* the process_slide task of each slide
    completed,      \* indexes of the tasks in the order they completed
    enriched,       \* the list returned
    ipc,            \* "running" until the gather returns, then "returned"
    \* ---- design_library.select_layout ----
    largs,          \* the arguments slide, slide_index, total_slides
    layout,         \* the LayoutType returned
    \* ---- presentation_targets.compute_presentation_targets ----
    targs,          \* the arguments duration_minutes, audience, speaker_profile
    computed,       \* the dict returned
    \* ---- PPTExporter._add_picture_fit_centered ----
    fargs,          \* the image stream, the box and what add_picture does
    fitted,         \* the locals computed and the picture added
    \* ---- PPTExporter._add_content_slide ----
    sargs,          \* slide_data, slide_index, total_slides, the image fetch
    rendered,       \* what the slide written holds
    \* ---- web front-end (app.py) ----
    session_state,  \* st.session_state: key -> the dict stored (0: no entry)
    progressDicts,  \* the progress dicts created so far
    holderDicts,    \* the result holder dicts created so far
    threads,        \* the run_agent threads started so far
    page            \* the script thread: what _progress_ui has read

pipeVars == <<pc, duration, draft, manuscript, evaluation, rewritten, score,
              factInput, factOutcome, slideReturns, slides, notesInput,
              notesAnswer, calls,
              strictFlags, progress, result, slidesWithImages, outcome, raisedBy,
              observer>>
\* What a run holds besides its position, its progress trace and its end.
runData == <<duration, draft, manuscript, evaluation, rewritten, score,
             factInput, factOutcome, slideReturns, slides, notesInput,
             notesAnswer, calls,
             strictFlags, result, slidesWithImages>>
patchVars == <<pm, pr, pout, pout2, pphase>>
imageVars == <<islides, hasLlm, tasks, completed, enriched, ipc>>
layoutVars == <<largs, layout>>
targetVars == <<targs, computed>>
fitVars == <<fargs, fitted>>
slideVars == <<sargs, rendered>>
appVars == <<session_state, progressDicts, holderDicts, threads, page>>
vars == <<pipeVars, patchVars, imageVars, layoutVars, targetVars, fitVars,
          slideVars, appVars>>

Max(a, b) == IF a >= b THEN a ELSE b
Min(a, b) == IF a <= b THEN a ELSE b

-----------------------------------------------------------------------------
(* Text: str operations of Python used by the code.                        *)

Chars == {"a", "b"}

\* All texts over Chars of length at most n.
StrsUpTo(n) == UNION {[1..k -> Chars] : k \in 0..n}

\* s[i:i+len(p)] == p  (i is 1-based)
IsAt(s, p, i) ==
    /\ i >= 1
    /\ i + Len(p) - 1 <= Len(s)
    /\ \A k \in 1..Len(p) : s[i + k - 1] = p[k]

\* Python `p in s` for str: true for the empty p.
Contains(s, p) == \E i \in 1..(Len(s) + 1) : IsAt(s, p, i)

\* str.find(p, i): the lowest index >= i at which p occurs, 0 when there is none.
RECURSIVE Find(_, _, _)
Find(s, p, i) ==
    IF i + Len(p) - 1 > Len(s) THEN 0
    ELSE IF IsAt(s, p, i) THEN i
    ELSE Find(s, p, i + 1)

\* A plausible slip: replace every occurrence (count argument forgotten).
RECURSIVE ReplaceAll(_, _, _)
ReplaceAll(s, old, new) ==
    LET i == Find(s, old, 1) IN
    IF old = <<>> \/ i = 0 THEN s
    ELSE SubSeq(s, 1, i - 1) \o new
         \o ReplaceAll(SubSeq(s, i + Len(old), Len(s)), old, new)

\* str.replace(old, new, 1): the leftmost occurrence only; for the empty old
\* Python inserts new at the front.
str_replace_1(s, old, new) ==
    LET i == Find(s, old, 1) IN
    IF i = 0 THEN s
    ELSE SubSeq(s, 1, i - 1) \o new \o SubSeq(s, i + Len(old), Len(s))

-----------------------------------------------------------------------------
(* FactChecker.apply_patches (fact_checker.py).                            *)

\* The guard of the inner loop: `if not issue.original_text or
\* issue.original_text not in content: continue`.
\* A plausible slip: the emptiness test dropped.
SkipsIssueNoEmptyTest(content, issue) ==
    ~Contains(content, issue.original_text)

SkipsIssue(content, issue) ==
    issue.original_text = <<>> \/ ~Contains(content, issue.original_text)

\* One iteration of `for issue in report.issues` on the working content.
PatchOne(content, issue) ==
    IF SkipsIssue(content, issue) THEN content
    ELSE str_replace_1(content, issue.original_text, issue.corrected_text)

\* The inner loop over the issues, in report order, on one section.
RECURSIVE PatchContent(_, _)
PatchContent(content, issues) ==
    IF issues = <<>> THEN content
    ELSE PatchContent(PatchOne(content, Head(issues)), Tail(issues))

apply_patches(m, report) ==
    IF report.issues = <<>> THEN m
    ELSE [title |-> m.title,
          sections |-> [i \in 1..Len(m.sections) |->
                          [name |-> m.sections[i].name,
                           content |-> PatchContent(m.sections[i].content,
                                                    report.issues)]]]

-----------------------------------------------------------------------------
(* Slide-count range (presentation_targets.py).                            *)

SLIDES_PER_MINUTE_MIN == 1
SLIDES_PER_MINUTE_MAX == 2
MIN_SLIDES_FLOOR == 3

\* min_slides and max_slides of compute_presentation_targets.
SlideRange(duration_minutes) ==
    LET min_slides == Max(MIN_SLIDES_FLOOR,
                          duration_minutes * SLIDES_PER_MINUTE_MIN)
    IN [min_slides |-> min_slides,
        max_slides |-> Max(min_slides,
                           duration_minutes * SLIDES_PER_MINUTE_MAX)]

\* A plausible slip: the upper limit not tested.
AcceptableIgnoringMax(slide_list, min_slides, max_slides) ==
    min_slides <= Len(slide_list)

is_slide_count_acceptable(slide_list, min_slides, max_slides) ==
    min_slides <= Len(slide_list) /\ Len(slide_list) <= max_slides

-----------------------------------------------------------------------------
(* Inputs and collaborator answers of a pipeline run.                      *)

MaxDuration == 2        \* durations 1..MaxDuration are drawn
MaxSlideCount == 4      \* the slide service returns 0..MaxSlideCount slides

Durations == 1..MaxDuration

\* ScriptReviewEvaluation.score: Field(ge=0, le=10).
SCORE_MIN == 0
SCORE_MAX == 10
APPROVE_SCORE == 8
Scores == SCORE_MIN..SCORE_MAX
NoScore == SCORE_MIN - 1        \* `score` not yet bound
\* Scores the evaluation is drawn from: both ends and both sides of the
\* approval threshold.
DrawnScores == {SCORE_MIN, APPROVE_SCORE - 1, APPROVE_SCORE, SCORE_MAX}

Sec(n, c) == [name |-> n, content |-> c]

NoManuscript == [title |-> "", sections |-> <<>>]   \* variable not yet bound

\* Manuscripts the manuscript service may return.
DraftManuscripts ==
    { [title |-> "Draft",
       sections |-> <<Sec("Introduction", <<"a", "a">>),
                      Sec("Main Part", <<"b">>)>>],
      [title |-> "Draft",
       sections |-> <<Sec("Introduction", <<"a", "b">>)>>] }

\* Manuscripts the rewrite call may return.
RewriteManuscripts ==
    { [title |-> "Rewritten",
       sections |-> <<Sec("Introduction", <<"b", "a">>)>>],
      [title |-> "Draft",
       sections |-> <<Sec("Introduction", <<"a", "b">>)>>] }

\* A FactCheckIssue: issue_type and explanation are not read by the code
\* that patches, so only the two texts are kept.
Issue(o, c) == [original_text |-> o, corrected_text |-> c]

NoReport == [issues |-> <<>>]

\* Reports the fact-check analysis may return in a pipeline run.
PipelineReports ==
    { NoReport,
      [issues |-> <<Issue(<<"a">>, <<"b">>)>>],
      [issues |-> <<Issue(<<"b">>, <<>>), Issue(<<>>, <<"a">>)>>] }

\* The slides of a SlideListOutput the LLM answered with, carrying the
\* given slide numbers: any integers >= 1 pass validation.
SlideResponse(numbers) ==
    [i \in 1..Len(numbers) |->
       [slide_number |-> numbers[i],
        title |-> <<"Title", i>>,
        bullet_points |-> [k \in 1..i |-> "point"],
        speaker_notes |-> "notes of the LLM",
        image_query |-> "cats"]]

\* Responses numbered 1..n, and one that numbers two slides alike, leaves a
\* number out and is out of order.
SlideResponses ==
    {SlideResponse([i \in 1..n |-> i]) : n \in 0..MaxSlideCount}
    \cup {SlideResponse(<<3, 3, 1>>)}

\* The list SlideGenerator.generate builds from the response: every field
\* copied, slide_number too, speaker_notes forced to "".
SlideContents(response) ==
    [i \in 1..Len(response) |-> [response[i] EXCEPT !.speaker_notes = ""]]

\* How a generate_structured call ends (llm_client.py): a parsed object, a
\* ValueError (empty content, invalid JSON, pydantic ValidationError), or an
\* error of the service client, which is no ValueError.
LLMFailures == {"ValueError", "ServiceError"}

Ok(v) == [err |-> "", val |-> v]
Fail(e) == [err |-> e, val |-> <<>>]
NotCalled == Fail("not called")
Answers(values) == {Ok(v) : v \in values} \cup {Fail(e) : e \in LLMFailures}
Failed(answer) == answer.err # ""

NoCalls == [outline |-> 0, script |-> 0, evaluate |-> 0, rewrite |-> 0,
            fact_check |-> 0, slides |-> 0, notes |-> 0]

Called(what) == [calls EXCEPT ![what] = @ + 1]

\* _report(progress_callback, step, percent)
Report(events, step, percent) == Append(events, <<step, percent>>)

\* image_url: None, or a string.  bool(image_url) is false for None and "".
NoImage == "None"
Truthy(url) == url # NoImage /\ url # ""

\* A slide as select_layout reads it.
LayoutSlide(url, bullets) ==
    [image_url |-> url, bullet_points |-> [k \in 1..bullets |-> "point"]]

NoLayoutArgs == [slide |-> LayoutSlide(NoImage, 0), slide_index |-> 0,
                 total_slides |-> 0]

NoResult == [output_path |-> "", script_path |-> "", slide_count |-> 0,
             images_included |-> 0]

-----------------------------------------------------------------------------
(* The pipeline run: PresentationAgent._run_async (agent.py).              *)

PatchIdle ==
    /\ pm = NoManuscript /\ pr = NoReport
    /\ pout = NoManuscript /\ pout2 = NoManuscript
    /\ pphase = "idle"

ImageIdle ==
    /\ islides = <<>> /\ hasLlm = FALSE
    /\ tasks = <<>> /\ completed = <<>>
    /\ enriched = <<>> /\ ipc = "idle"

LayoutIdle ==
    /\ largs = NoLayoutArgs
    /\ layout = "none"

NoTargets == [target_word_count |-> 0, min_slides |-> 0, max_slides |-> 0,
              wpm |-> 0]

TargetsIdle ==
    /\ targs = [duration_minutes |-> 0, audience |-> <<>>,
                speaker_profile |-> [given |-> FALSE, age |-> 0,
                                     experience_level |-> <<>>]]
    /\ computed = NoTargets

NoPicture == [done |-> FALSE, added |-> FALSE, fit |-> <<>>, picture |-> <<>>]

FitIdle ==
    /\ fargs = [image |-> [decodes |-> FALSE, w_px |-> 0, h_px |-> 0],
                box |-> [left |-> 0, top |-> 0, width |-> 0, height |-> 0],
                addRaises |-> FALSE]
    /\ fitted = NoPicture

NoSlideShown == [done |-> FALSE, layout |-> "none", title |-> <<>>,
                 bullets |-> 0, picture |-> FALSE, notes |-> <<>>,
                 images_added |-> 0]

NoSlideArgs ==
    [slide |-> [title |-> [lead |-> 0, body |-> 0, trail |-> 0],
                bullet_points |-> <<>>, speaker_notes |-> "", image_url |-> NoImage],
     slide_index |-> 0, total_slides |-> 0,
     fetch |-> [raises |-> FALSE,
                image |-> [decodes |-> FALSE, w_px |-> 0, h_px |-> 0],
                addRaises |-> FALSE]]

SlideIdle ==
    /\ sargs = NoSlideArgs
    /\ rendered = NoSlideShown

AppIdle ==
    /\ session_state = [progress |-> 0, result_files |-> 0]
    /\ progressDicts = <<>>
    /\ holderDicts = <<>>
    /\ threads = <<>>
    /\ page = [pc |-> "closed", status |-> "idle", files |-> <<>>,
               submissions |-> 0, resets |-> 0]

\* The exporter and the web front-end at rest.
FrontIdle == FitIdle /\ SlideIdle /\ AppIdle

PipeStart(position, durations, observers) ==
    /\ pc = position
    /\ duration \in durations
    /\ draft = NoManuscript
    /\ manuscript = NoManuscript
    /\ evaluation = NotCalled
    /\ rewritten = NotCalled
    /\ score = NoScore
    /\ factInput = NoManuscript
    /\ factOutcome = [analysis |-> NotCalled, patch |-> "not run"]
    /\ slideReturns = <<>>
    /\ slides = <<>>
    /\ notesInput = <<>>
    /\ notesAnswer = NotCalled
    /\ calls = NoCalls
    /\ strictFlags = <<>>
    /\ progress = <<>>
    /\ result = NoResult
    /\ slidesWithImages = <<>>
    /\ outcome = "running"
    /\ raisedBy = ""
    /\ observer \in observers

\* The progress callback handed to the agent: one that returns from every
\* call (or none at all: _report then only prints), or one that may raise.
Observers == {"returns", "raises"}

PipeInit == PipeStart("start", Durations, {"returns"})
PipeIdle == PipeStart("idle", {1}, {"returns"})

Init == PipeInit /\ PatchIdle /\ ImageIdle /\ LayoutIdle /\ TargetsIdle /\ FrontIdle

\* An exception leaves _run_async: a ValueError is turned into a
\* PresentationAgentError by the outer handler, anything else propagates as
\* it is.  ScriptGeneratorError and PPTExporterError are re-raised as
\* PresentationAgentError by the inner handlers.
Raised(kind) ==
    IF kind \in {"ValueError", "ScriptGeneratorError", "PPTExporterError"}
    THEN "PresentationAgentError"
    ELSE kind

\* The awaited call of the stage the run is in raised.
Abort(kind) ==
    /\ pc' = "failed"
    /\ outcome' = Raised(kind)
    /\ raisedBy' = pc
    /\ observer' = observer

\* A plausible slip: the notes stage left out of the chain.
ContinueSkippingNotes(next) ==
    /\ pc' = IF next = "notes" THEN "images" ELSE next
    /\ outcome' = outcome
    /\ raisedBy' = raisedBy
    /\ observer' = observer

\* The awaited call returned: the run goes on to the next await.
Continue(next) ==
    /\ pc' = next
    /\ outcome' = outcome
    /\ raisedBy' = raisedBy
    /\ observer' = observer

\* Exceptions a progress callback may raise.
ObserverFailures == {"ValueError", "RuntimeError"}

\* _report calls progress_callback(step, percent) when one was given, with
\* no handler around the call: an exception of the callback leaves _report
\* inside the try block of _run_async.  delivered is the trace with the
\* event the callback was called with.
ObserverRaises(delivered) ==
    /\ observer = "raises"
    /\ progress' = delivered
    /\ pc' = "failed"
    /\ raisedBy' = "observer"
    /\ observer' = observer
    /\ \E e \in ObserverFailures : outcome' = Raised(e)

\* OutlineGenerator.generate, first attempt: a ValueError leads to the
\* second attempt, any other error propagates.
PlanOutline ==
    /\ pc = "start"
    /\ \/ ObserverRaises(Report(progress, "Planning structure", 5)) /\ UNCHANGED runData
       \/ /\ progress' = Report(progress, "Planning structure", 5)
          /\ calls' = Called("outline")
          /\ \E answer \in Answers({"outline"}) :
               CASE ~Failed(answer) -> Continue("script")
                 [] answer.err = "ValueError" -> Continue("outline_retry")
                 [] OTHER -> Abort(answer.err)
          /\ UNCHANGED <<duration, draft, manuscript, evaluation, rewritten, score,
                         factInput, factOutcome, slideReturns, slides,
                         notesInput, notesAnswer,
                         strictFlags, result, slidesWithImages>>

\* OutlineGenerator.generate, the attempt with strict=True after a ValueError.
RetryOutline ==
    /\ pc = "outline_retry"
    /\ calls' = Called("outline")
    /\ \E answer \in Answers({"outline"}) :
         IF ~Failed(answer) THEN Continue("script") ELSE Abort(answer.err)
    /\ UNCHANGED <<duration, draft, manuscript, evaluation, rewritten, score,
                   factInput, factOutcome, slideReturns, slides, notesInput,
                   notesAnswer,
                   strictFlags, progress, result, slidesWithImages>>

\* ScriptGenerator.generate: a ValueError becomes a ScriptGeneratorError.
WriteManuscript ==
    /\ pc = "script"
    /\ \/ ObserverRaises(Report(progress, "Writing manuscript", 15)) /\ UNCHANGED runData
       \/ /\ progress' = Report(progress, "Writing manuscript", 15)
          /\ calls' = Called("script")
          /\ \E answer \in Answers(DraftManuscripts) :
               IF ~Failed(answer)
               THEN /\ draft' = answer.val
                    /\ manuscript' = answer.val
                    /\ Continue("review")
               ELSE /\ Abort(IF answer.err = "ValueError" THEN "ScriptGeneratorError"
                             ELSE answer.err)
                    /\ UNCHANGED <<draft, manuscript>>
          /\ UNCHANGED <<duration, evaluation, rewritten, score, factInput,
                         factOutcome, slideReturns, slides, notesInput,
                         notesAnswer, strictFlags,
                         result, slidesWithImages>>

\* ScriptReviewer.review_and_improve: `if evaluation.score >= 8`.
\* A plausible slip: the approval test on the wrong side of the threshold.
ApprovesAbove(s) == s > APPROVE_SCORE

Approves(s) == s >= APPROVE_SCORE

\* review_and_improve once `await self._evaluate` has ended: a failed
\* evaluation is caught and (manuscript, 0) returned, an approving score
\* returns (manuscript, score), a lower score goes on to the rewrite.
\* A plausible slip: the handler catching ValueError only.
AfterEvaluateCatchingValueError(answer) ==
    IF answer.err = "ValueError" THEN [then |-> "return", score |-> 0]
    ELSE IF Failed(answer) THEN [then |-> "raise", score |-> NoScore]
    ELSE IF Approves(answer.val) THEN [then |-> "return", score |-> answer.val]
    ELSE [then |-> "rewrite", score |-> NoScore]

AfterEvaluate(answer) ==
    IF Failed(answer) THEN [then |-> "return", score |-> 0]
    ELSE IF Approves(answer.val) THEN [then |-> "return", score |-> answer.val]
    ELSE [then |-> "rewrite", score |-> NoScore]

ReviewEvaluate ==
    /\ pc = "review"
    /\ \/ ObserverRaises(Report(progress, "Reviewing manuscript", 25)) /\ UNCHANGED runData
       \/ /\ progress' = Report(progress, "Reviewing manuscript", 25)
          /\ calls' = Called("evaluate")
          /\ \E answer \in Answers(DrawnScores) :
               /\ evaluation' = answer
               /\ score' = AfterEvaluate(answer).score
               /\ CASE AfterEvaluate(answer).then = "return" -> Continue("reviewed")
                    [] AfterEvaluate(answer).then = "rewrite" -> Continue("rewrite")
                    [] OTHER -> Abort(answer.err)
          /\ UNCHANGED <<duration, draft, manuscript, rewritten, factInput,
                         factOutcome, slideReturns, slides, notesInput,
                         notesAnswer, strictFlags,
                         result, slidesWithImages>>

\* What review_and_improve returns once `await self._rewrite` has ended:
\* (improved, evaluation.score), or (manuscript, 0) from the handler.
\* A plausible slip: the rewrite's manuscript dropped.
ReviewReturnKeepingInput(input, answer, evalScore) ==
    IF Failed(answer) THEN <<input, 0>> ELSE <<input, evalScore>>

\* A plausible slip: the evaluation's score kept when the rewrite failed.
ReviewReturnEvaluatedScore(input, answer, evalScore) ==
    IF Failed(answer) THEN <<input, evalScore>> ELSE <<answer.val, evalScore>>

ReviewReturn(input, answer, evalScore) ==
    IF Failed(answer) THEN <<input, 0>> ELSE <<answer.val, evalScore>>

ReviewRewrite ==
    /\ pc = "rewrite"
    /\ calls' = Called("rewrite")
    /\ \E answer \in Answers(RewriteManuscripts) :
         /\ rewritten' = answer
         /\ manuscript' = ReviewReturn(manuscript, answer, evaluation.val)[1]
         /\ score' = ReviewReturn(manuscript, answer, evaluation.val)[2]
    /\ Continue("reviewed")
    /\ UNCHANGED <<duration, draft, evaluation, factInput, factOutcome,
                   slideReturns, slides, notesInput, notesAnswer, strictFlags, progress,
                   result, slidesWithImages>>

\* FactChecker.fact_check_and_patch: the analysis call, then apply_patches;
\* `except Exception` returns the input manuscript.  patchRaises stands for
\* an exception inside apply_patches.
\* A plausible slip: the handler catching ValueError only.
FactCheckCatchingValueError(m, analysis, patchRaises) ==
    IF analysis.err = "ValueError" THEN [then |-> "return", value |-> m]
    ELSE IF Failed(analysis) THEN [then |-> "raise", value |-> m]
    ELSE IF analysis.val.issues = <<>> THEN [then |-> "return", value |-> m]
    ELSE IF patchRaises THEN [then |-> "raise", value |-> m]
    ELSE [then |-> "return", value |-> apply_patches(m, analysis.val)]

fact_check_and_patch(m, analysis, patchRaises) ==
    IF Failed(analysis) THEN [then |-> "return", value |-> m]
    ELSE IF analysis.val.issues = <<>> THEN [then |-> "return", value |-> m]
    ELSE IF patchRaises THEN [then |-> "return", value |-> m]
    ELSE [then |-> "return", value |-> apply_patches(m, analysis.val)]

FactCheck ==
    /\ pc = "reviewed"
    /\ LET approved == Report(progress, "Manuscript approved", 35)
           checking == Report(approved, "Fact-checking", 40) IN
       \/ ObserverRaises(approved) /\ UNCHANGED runData
       \/ ObserverRaises(checking) /\ UNCHANGED runData
       \/ /\ progress' = checking
          /\ calls' = Called("fact_check")
          /\ factInput' = manuscript
          /\ \E analysis \in Answers(PipelineReports), patchRaises \in BOOLEAN :
               LET r == fact_check_and_patch(manuscript, analysis, patchRaises) IN
               /\ factOutcome' = [analysis |-> analysis,
                                  patch |-> IF Failed(analysis) THEN "not run"
                                            ELSE IF analysis.val.issues = <<>>
                                            THEN "not run"
                                            ELSE IF patchRaises THEN "raised"
                                            ELSE "applied"]
               /\ manuscript' = r.value
               /\ IF r.then = "return" THEN Continue("slides")
                  ELSE Abort("ServiceError")
          /\ UNCHANGED <<duration, draft, evaluation, rewritten, score, slideReturns,
                         slides, notesInput, notesAnswer, strictFlags, result,
                         slidesWithImages>>

\* SlideGenerator.generate, first call, then the range test of _run_async:
\* outside [min_slides, max_slides] the retry is announced and awaited.
CreateSlides ==
    /\ pc = "slides"
    /\ LET targets == SlideRange(duration)
           shown == Report(progress, "Creating slides", 55)
           adjusting == Report(shown, "Adjusting slide count, retrying", 60) IN
       \/ ObserverRaises(shown) /\ UNCHANGED runData
       \/ /\ calls' = Called("slides")
          /\ strictFlags' = Append(strictFlags, FALSE)
          /\ \E answer \in Answers(SlideResponses) :
               IF Failed(answer)
               THEN /\ Abort(answer.err)
                    /\ progress' = shown
                    /\ UNCHANGED <<slideReturns, slides>>
               ELSE /\ slideReturns' = Append(slideReturns, SlideContents(answer.val))
                    /\ slides' = SlideContents(answer.val)
                    /\ IF is_slide_count_acceptable(answer.val, targets.min_slides,
                                                    targets.max_slides)
                       THEN /\ progress' = shown
                            /\ Continue("notes")
                       ELSE \/ /\ progress' = adjusting
                               /\ Continue("slides_retry")
                            \/ ObserverRaises(adjusting)
          /\ UNCHANGED <<duration, draft, manuscript, evaluation, rewritten, score,
                         factInput, factOutcome, notesInput, notesAnswer,
                         result, slidesWithImages>>

\* SlideGenerator.generate with strict_slide_count_retry=True; its list is
\* kept whatever its length.
RetrySlides ==
    /\ pc = "slides_retry"
    /\ calls' = Called("slides")
    /\ strictFlags' = Append(strictFlags, TRUE)
    /\ \E answer \in Answers(SlideResponses) :
         IF Failed(answer)
         THEN Abort(answer.err) /\ UNCHANGED <<slideReturns, slides>>
         ELSE /\ Continue("notes")
              /\ slideReturns' = Append(slideReturns, SlideContents(answer.val))
              /\ slides' = SlideContents(answer.val)
    /\ UNCHANGED <<duration, draft, manuscript, evaluation, rewritten, score,
                   factInput, factOutcome, notesInput, notesAnswer, progress, result,
                   slidesWithImages>>

\* notes_by_slide.get(number, ""): the dict is built from the list, so the
\* last entry of a slide number wins.
RECURSIVE NotesLookup(_, _)
NotesLookup(notes, number) ==
    IF notes = <<>> THEN ""
    ELSE IF notes[Len(notes)].slide_number = number
         THEN notes[Len(notes)].speaker_notes
         ELSE NotesLookup(SubSeq(notes, 1, Len(notes) - 1), number)

\* A plausible slip: the notes merged by list position instead of by
\* slide_number.
NotesByPosition(slide_list, answer) ==
    IF Failed(answer) THEN slide_list
    ELSE [i \in 1..Len(slide_list) |->
            [slide_list[i] EXCEPT
               !.speaker_notes = IF i <= Len(answer.val)
                                 THEN answer.val[i].speaker_notes
                                 ELSE ""]]

\* NotesGenerator.generate: on a failed call the slides as they are,
\* otherwise each slide with the notes of its slide_number.
NotesGenerate(slide_list, answer) ==
    IF Failed(answer) THEN slide_list
    ELSE [i \in 1..Len(slide_list) |->
            [slide_list[i] EXCEPT
               !.speaker_notes = NotesLookup(answer.val,
                                             slide_list[i].slide_number)]]

\* Notes lists the notes service may return for a slide list: none, one
\* entry a slide in slide order, and the entries of all slides but the first
\* in reverse order after an entry for a slide number no slide has.
NotesFor(slide_list) ==
    LET n == Len(slide_list)
        texts == <<"note a", "note b", "note c", "note d", "note e", "note f">>
        all == [i \in 1..n |-> [slide_number |-> slide_list[i].slide_number,
                                speaker_notes |-> texts[i]]]
        reversed == <<[slide_number |-> 9, speaker_notes |-> "stray"]>>
                    \o [i \in 1..(n - 1) |-> all[n + 1 - i]]
    IN  {<<>>, all, reversed}

AddNotes ==
    /\ pc = "notes"
    /\ \/ ObserverRaises(Report(progress, "Adding speaker notes", 70)) /\ UNCHANGED runData
       \/ /\ progress' = Report(progress, "Adding speaker notes", 70)
          /\ calls' = Called("notes")
          /\ notesInput' = slides
          /\ \E answer \in Answers(NotesFor(slides)) :
               /\ notesAnswer' = answer
               /\ slides' = NotesGenerate(slides, answer)
          /\ Continue("images")
          /\ UNCHANGED <<duration, draft, manuscript, evaluation, rewritten, score,
                         factInput, factOutcome, slideReturns, strictFlags, result, slidesWithImages>>

\* ImageService.enrich_slides_with_images as the run sees it: it returns one
\* SlideWithImage a slide and raises nothing; which slides got an image_url
\* is the image service's business (ImageSpec).
WithImages(slide_list, chosen) ==
    [i \in 1..Len(slide_list) |->
       [slide_number |-> slide_list[i].slide_number,
        title |-> slide_list[i].title,
        bullet_points |-> slide_list[i].bullet_points,
        speaker_notes |-> slide_list[i].speaker_notes,
        image_url |-> IF i \in chosen THEN "url" ELSE NoImage,
        image_query |-> slide_list[i].image_query]]

SelectImages ==
    /\ pc = "images"
    /\ \/ ObserverRaises(Report(progress, "Selecting images", 80)) /\ UNCHANGED runData
       \/ /\ progress' = Report(progress, "Selecting images", 80)
          /\ \E chosen \in {{}, 1..Len(slides)} :
               slidesWithImages' = WithImages(slides, chosen)
          /\ Continue("export")
          /\ UNCHANGED <<duration, draft, manuscript, evaluation, rewritten, score,
                         factInput, factOutcome, slideReturns, slides,
                         notesInput, notesAnswer,
                         calls, strictFlags, result>>

\* Exceptions a failing PPTExporter.export raises: the exporter raises no
\* PPTExporterError itself; the file system raises OSError, the document
\* library may raise ValueError.
ExportFailures == {"OSError", "ValueError"}

\* PPTExporter.export: slide_count counts the title slide, images_included
\* the pictures that could be fetched and placed.
ExportFiles ==
    /\ pc = "export"
    /\ \/ ObserverRaises(Report(progress, "Exporting files", 92)) /\ UNCHANGED runData
       \/ /\ progress' = Report(progress, "Exporting files", 92)
          /\ \/ \E placed \in {0, Cardinality({i \in 1..Len(slidesWithImages) :
                                                 Truthy(slidesWithImages[i].image_url)})} :
                  /\ result' = [output_path |-> "deck.pptx",
                                script_path |-> "",
                                slide_count |-> Len(slidesWithImages) + 1,
                                images_included |-> placed]
                  /\ Continue("script_export")
             \/ \E e \in ExportFailures :
                  /\ Abort(e)
                  /\ result' = result
          /\ UNCHANGED <<duration, draft, manuscript, evaluation, rewritten, score,
                         factInput, factOutcome, slideReturns, slides,
                         notesInput, notesAnswer,
                         calls, strictFlags, slidesWithImages>>

\* A plausible slip: no handler around ScriptExporter.export, so that a
\* failed script export ends the run.
ExportScriptFatal ==
    /\ pc = "script_export"
    /\ \/ /\ result' = [result EXCEPT !.script_path = "deck_script.docx"]
          /\ progress' = Report(progress, "Done", 100)
          /\ pc' = "done"
          /\ outcome' = "success"
          /\ raisedBy' = raisedBy
          /\ observer' = observer
       \/ /\ Abort("OSError")
          /\ UNCHANGED <<result, progress>>
    /\ UNCHANGED <<duration, draft, manuscript, evaluation, rewritten, score,
                   factInput, factOutcome, slideReturns, slides, notesInput,
                   notesAnswer, calls, strictFlags, slidesWithImages>>

\* ScriptExporter.export inside `try ... except Exception: pass`, then
\* _report("Done", 100) and the return.
ExportScript ==
    /\ pc = "script_export"
    /\ \E written \in BOOLEAN :
         result' = IF written
                   THEN [result EXCEPT !.script_path = "deck_script.docx"]
                   ELSE result
    /\ \/ /\ progress' = Report(progress, "Done", 100)
          /\ pc' = "done"
          /\ outcome' = "success"
          /\ raisedBy' = raisedBy
          /\ observer' = observer
       \/ ObserverRaises(Report(progress, "Done", 100))
    /\ UNCHANGED <<duration, draft, manuscript, evaluation, rewritten, score,
                   factInput, factOutcome, slideReturns, slides, notesInput,
                   notesAnswer,
                   calls, strictFlags, slidesWithImages>>

Next ==
    \/ PlanOutline /\ UNCHANGED <<patchVars, imageVars, layoutVars, targetVars, fitVars, slideVars, appVars>>
    \/ RetryOutline /\ UNCHANGED <<patchVars, imageVars, layoutVars, targetVars, fitVars, slideVars, appVars>>
    \/ WriteManuscript /\ UNCHANGED <<patchVars, imageVars, layoutVars, targetVars, fitVars, slideVars, appVars>>
    \/ ReviewEvaluate /\ UNCHANGED <<patchVars, imageVars, layoutVars, targetVars, fitVars, slideVars, appVars>>
    \/ ReviewRewrite /\ UNCHANGED <<patchVars, imageVars, layoutVars, targetVars, fitVars, slideVars, appVars>>
    \/ FactCheck /\ UNCHANGED <<patchVars, imageVars, layoutVars, targetVars, fitVars, slideVars, appVars>>
    \/ CreateSlides /\ UNCHANGED <<patchVars, imageVars, layoutVars, targetVars, fitVars, slideVars, appVars>>
    \/ RetrySlides /\ UNCHANGED <<patchVars, imageVars, layoutVars, targetVars, fitVars, slideVars, appVars>>
    \/ AddNotes /\ UNCHANGED <<patchVars, imageVars, layoutVars, targetVars, fitVars, slideVars, appVars>>
    \/ SelectImages /\ UNCHANGED <<patchVars, imageVars, layoutVars, targetVars, fitVars, slideVars, appVars>>
    \/ ExportFiles /\ UNCHANGED <<patchVars, imageVars, layoutVars, targetVars, fitVars, slideVars, appVars>>
    \/ ExportScript /\ UNCHANGED <<patchVars, imageVars, layoutVars, targetVars, fitVars, slideVars, appVars>>

Spec == Init /\ [][Next]_vars

\* The run with any progress callback, one that raises included.  The
\* duration enters a run through the slide range only; one minute gives the
\* range [3, 3], which the drawn slide lists fall short of, meet and exceed.
ObserverStart ==
    /\ PipeStart("start", {1}, Observers)
    /\ PatchIdle /\ ImageIdle /\ LayoutIdle /\ TargetsIdle /\ FrontIdle

ObserverSpec == ObserverStart /\ [][Next]_vars

-----------------------------------------------------------------------------
(* FactChecker.apply_patches on drawn inputs (PatchSpec).                  *)

MaxContentLen == 2      \* section contents of length 0..MaxContentLen
MaxIssues == 2          \* reports of 0..MaxIssues issues

SectionNames == <<"Introduction", "Main Part">>

\* original_text values drawn: empty, one character, two characters.
OriginalTexts == {<<>>, <<"a">>, <<"b">>, <<"a", "b">>}
\* corrected_text values drawn: empty, other text, text holding the original.
CorrectedTexts == {<<>>, <<"b">>, <<"a", "a">>}

PatchIssues == {Issue(o, c) : o \in OriginalTexts, c \in CorrectedTexts}

PatchReports ==
    {[issues |-> q] : q \in UNION {[1..k -> PatchIssues] : k \in 0..MaxIssues}}

PatchManuscripts ==
    {[title |-> "Title",
      sections |-> [i \in 1..k |-> Sec(SectionNames[i], body[i])]]
       : k \in 0..Len(SectionNames),
         body \in [1..Len(SectionNames) -> StrsUpTo(MaxContentLen)]}

PatchInit ==
    /\ pm \in PatchManuscripts
    /\ pr \in PatchReports
    /\ pout = NoManuscript
    /\ pout2 = NoManuscript
    /\ pphase = "drawn"

\* patched = checker.apply_patches(manuscript, report)
Patch ==
    /\ pphase = "drawn"
    /\ pout' = apply_patches(pm, pr)
    /\ pphase' = "patched"
    /\ UNCHANGED <<pm, pr, pout2>>

\* checker.apply_patches(patched, report): the same report once more.
PatchAgain ==
    /\ pphase = "patched"
    /\ pout2' = apply_patches(pout, pr)
    /\ pphase' = "repatched"
    /\ UNCHANGED <<pm, pr, pout>>

PatchNext ==
    \/ Patch /\ UNCHANGED <<pipeVars, imageVars, layoutVars, targetVars, fitVars, slideVars, appVars>>
    \/ PatchAgain /\ UNCHANGED <<pipeVars, imageVars, layoutVars, targetVars, fitVars, slideVars, appVars>>

PatchStart == PipeIdle /\ PatchInit /\ ImageIdle /\ LayoutIdle /\ TargetsIdle /\ FrontIdle

PatchSpec == PatchStart /\ [][PatchNext]_vars

-----------------------------------------------------------------------------
(* ImageService (image_service.py): one process_slide task a slide, run    *)
(* concurrently by asyncio.gather.  A task is suspended at its search      *)
(* request and at the gather of its candidate evaluations; the tasks share *)
(* no state.                                                               *)

MaxSlides == 2          \* slide lists of length 0..MaxSlides

MIN_WIDTH == 800
RESULTS_KEPT == 3

\* One entry of the search response: urls.regular/urls.small ("" when
\* there is none), width, height.
Photo(u, w, h) == [url |-> u, width |-> w, height |-> h]

Wide == Photo("wide", 1200, 800)
Small == Photo("small", 600, 400)
Portrait == Photo("portrait", 800, 1200)
NoUrl == Photo("", 1200, 800)

\* The `results` arrays the search service answers with.
ResultLists == {<<>>, <<NoUrl>>, <<Portrait>>, <<Small, Wide>>,
                <<Portrait, Small, NoUrl, Wide>>}

\* How the search request ends: the response body, an httpx.HTTPError
\* (re-raised as ImageServiceError), or a body that is not JSON.
SearchFailures == {"HTTPError", "JSONDecodeError"}
SearchAnswers == {Ok(r) : r \in ResultLists} \cup {Fail(e) : e \in SearchFailures}

\* What _evaluate_candidate returns: an ImageEvaluation, or None when the
\* vision call raised.
Evaluation(s, bg) == [ok |-> TRUE, score |-> s, suitable_as_background |-> bg]
NoEvaluation == [ok |-> FALSE, score |-> 0, suitable_as_background |-> FALSE]
EvaluationResults == {NoEvaluation, Evaluation(5, TRUE), Evaluation(6, FALSE)}

\* slide.image_query: None or "", blank, a query.
ImageQueries == {"", " ", "cats"}
Strip(q) == IF q = " " THEN "" ELSE q

InputSlide(number, query) ==
    [slide_number |-> number,
     title |-> <<"Title", number>>,
     bullet_points |-> [k \in 1..number |-> "point"],
     speaker_notes |-> <<"Notes", number>>,
     image_query |-> query]

\* The slide generator copies slide_number from the LLM's answer: the
\* numbers need not follow the list order.
SlideNumberings(n) == {[i \in 1..n |-> i], [i \in 1..n |-> n + 1 - i]}

InputSlideLists ==
    UNION {{[i \in 1..n |-> InputSlide(num[i], q[i])]
              : num \in SlideNumberings(n), q \in [1..n -> ImageQueries]}
           : n \in 0..MaxSlides}

\* The url of the first entry, None when there is no entry.
UrlOfFirst(q) == IF q = <<>> THEN NoImage ELSE Head(q).url

HasUrl(r) == r.url # ""

\* A plausible slip: the landscape and width preference left out.
MetadataSelectFirstWithUrl(results) == UrlOfFirst(SelectSeq(results, HasUrl))

metadata_select_best(results) ==
    LET Preferred(r) == /\ ~(r.width # 0 /\ r.height # 0 /\ r.width < r.height)
                        /\ ~(r.width < MIN_WIDTH)
                        /\ HasUrl(r)
        preferred == SelectSeq(results, Preferred)
    IN  IF preferred # <<>> THEN Head(preferred).url
        ELSE UrlOfFirst(SelectSeq(results, HasUrl))

parse_candidates(results) ==
    LET Landscape(r) == HasUrl(r) /\ ~(r.width < r.height)
        candidates == SelectSeq(results, Landscape)
    IN  IF candidates # <<>> THEN candidates ELSE SelectSeq(results, HasUrl)

\* A plausible slip: the background bonus given on every slide.
VisionKeyBonusEverywhere(ev, prefer_background) ==
    LET bg_bonus == IF ev.suitable_as_background THEN 1 ELSE 0
    IN  <<ev.score + bg_bonus * 2, ev.score>>

\* key(item) of _select_best_by_vision, and the order of Python tuples.
VisionKey(ev, prefer_background) ==
    LET bg_bonus == IF prefer_background /\ ev.suitable_as_background THEN 1 ELSE 0
    IN  <<ev.score + bg_bonus * 2, ev.score>>

TupleLess(a, b) == a[1] < b[1] \/ (a[1] = b[1] /\ a[2] < b[2])

\* max(evaluations, key=key): the first item of maximal key.  evaluations
\* is the list of (candidate, evaluation) pairs.
select_best_by_vision(evaluations, prefer_background) ==
    LET K(j) == VisionKey(evaluations[j][2], prefer_background)
        best == CHOOSE j \in 1..Len(evaluations) :
                    /\ \A k \in 1..Len(evaluations) : ~TupleLess(K(j), K(k))
                    /\ \A k \in 1..(j - 1) : TupleLess(K(k), K(j))
    IN  evaluations[best][1].url

\* results = data.get("results", [])[:3]
KeptResults(answer) == SubSeq(answer.val, 1, Min(RESULTS_KEPT, Len(answer.val)))

\* fetch_image_for_query up to its second suspension: the search failed or
\* left no candidate (the task ends without an image), or the candidates go
\* to the vision evaluator, or, without an llm_client, metadata decides.
NeedsEvaluation(answer) ==
    /\ ~Failed(answer)
    /\ parse_candidates(KeptResults(answer)) # <<>>
    /\ hasLlm

UrlWithoutEvaluation(answer) ==
    IF Failed(answer) THEN NoImage
    ELSE IF KeptResults(answer) = <<>> THEN NoImage
    ELSE IF parse_candidates(KeptResults(answer)) = <<>> THEN NoImage
    ELSE metadata_select_best(KeptResults(answer))

\* fetch_image_for_query after the evaluations were gathered.
UrlAfterEvaluation(answer, ev_results, prefer_background) ==
    LET candidates == parse_candidates(KeptResults(answer))
        pairs == [j \in 1..Len(candidates) |-> <<candidates[j], ev_results[j]>>]
        IsEvaluation(pair) == pair[2].ok
        evaluations == SelectSeq(pairs, IsEvaluation)
    IN  IF evaluations # <<>>
        THEN select_best_by_vision(evaluations, prefer_background)
        ELSE metadata_select_best(KeptResults(answer))

\* The SlideWithImage process_slide returns.
SlideWithImage(slide, url) ==
    [slide_number |-> slide.slide_number,
     title |-> slide.title,
     bullet_points |-> slide.bullet_points,
     speaker_notes |-> slide.speaker_notes,
     image_url |-> url,
     image_query |-> slide.image_query]

NewTask == [pc |-> "pending", found |-> NotCalled, judged |-> <<>>, out |-> <<>>]

\* Task i returns: its result is kept by the gather until all are in.
Return(i, task, url) ==
    /\ tasks' = [tasks EXCEPT ![i] = [task EXCEPT !.pc = "done",
                                        !.out = <<SlideWithImage(islides[i], url)>>]]
    /\ completed' = Append(completed, i)

ImageInit ==
    /\ islides \in InputSlideLists
    /\ hasLlm \in BOOLEAN
    /\ tasks = [i \in 1..Len(islides) |-> NewTask]
    /\ completed = <<>>
    /\ enriched = <<>>
    /\ ipc = "running"

\* process_slide for a slide without a usable image_query: no request.
ProcessWithoutQuery(i) ==
    /\ ipc = "running"
    /\ tasks[i].pc = "pending"
    /\ Strip(islides[i].image_query) = ""
    /\ Return(i, tasks[i], NoImage)
    /\ UNCHANGED <<islides, hasLlm, enriched, ipc>>

\* The search request of task i ends.  process_slide catches every
\* Exception of fetch_image_for_query and keeps image_url = None.
SearchReturns(i) ==
    /\ ipc = "running"
    /\ tasks[i].pc = "pending"
    /\ Strip(islides[i].image_query) # ""
    /\ \E answer \in SearchAnswers :
         LET task == [tasks[i] EXCEPT !.found = answer] IN
         IF NeedsEvaluation(answer)
         THEN /\ tasks' = [tasks EXCEPT ![i] = [task EXCEPT !.pc = "evaluating"]]
              /\ completed' = completed
         ELSE Return(i, task, UrlWithoutEvaluation(answer))
    /\ UNCHANGED <<islides, hasLlm, enriched, ipc>>

\* The gather of the candidate evaluations of task i ends.
EvaluationsReturn(i) ==
    /\ ipc = "running"
    /\ tasks[i].pc = "evaluating"
    /\ LET candidates == parse_candidates(KeptResults(tasks[i].found)) IN
       \E ev_results \in [1..Len(candidates) -> EvaluationResults] :
           Return(i, [tasks[i] EXCEPT !.judged = ev_results],
                  UrlAfterEvaluation(tasks[i].found, ev_results, i = 1))
    /\ UNCHANGED <<islides, hasLlm, enriched, ipc>>

\* A plausible slip: the results taken in the order the tasks completed.
GatheredAsCompleted == [i \in 1..Len(tasks) |-> Ok(Head(tasks[completed[i]].out))]

\* results of asyncio.gather(..., return_exceptions=True): one a task, in
\* the order the tasks were passed.  process_slide raises no Exception.
Gathered == [i \in 1..Len(tasks) |-> Ok(Head(tasks[i].out))]

\* All tasks are done: the gather returns and the list is built.
Gather ==
    /\ ipc = "running"
    /\ \A i \in 1..Len(tasks) : tasks[i].pc = "done"
    /\ enriched' = [i \in 1..Len(Gathered) |->
                      IF Failed(Gathered[i])
                      THEN SlideWithImage(islides[i], NoImage)
                      ELSE Gathered[i].val]
    /\ ipc' = "returned"
    /\ UNCHANGED <<islides, hasLlm, tasks, completed>>

ImageNext ==
    \/ \E i \in 1..Len(islides) :
         ProcessWithoutQuery(i) /\ UNCHANGED <<pipeVars, patchVars, layoutVars, targetVars, fitVars, slideVars, appVars>>
    \/ \E i \in 1..Len(islides) :
         SearchReturns(i) /\ UNCHANGED <<pipeVars, patchVars, layoutVars, targetVars, fitVars, slideVars, appVars>>
    \/ \E i \in 1..Len(islides) :
         EvaluationsReturn(i) /\ UNCHANGED <<pipeVars, patchVars, layoutVars, targetVars, fitVars, slideVars, appVars>>
    \/ Gather /\ UNCHANGED <<pipeVars, patchVars, layoutVars, targetVars, fitVars, slideVars, appVars>>

ImageStart == PipeIdle /\ PatchIdle /\ ImageInit /\ LayoutIdle /\ TargetsIdle /\ FrontIdle

ImageSpec == ImageStart /\ [][ImageNext]_vars

-----------------------------------------------------------------------------
(* design_library.select_layout on drawn arguments (LayoutSpec).           *)

MaxTotal == 4           \* slide_index and total_slides in 0..MaxTotal
MaxBullets == 5         \* 0..MaxBullets bullet points

LayoutType == {"title_slide", "bold_section_divider", "title_and_bullets",
               "accent_left_layout", "card_layout", "hero_right",
               "hero_background", "image_focus", "two_column",
               "minimal_text", "conclusion"}

\* A plausible slip: the IMAGE_FOCUS rule placed before the HERO_RIGHT rule.
SelectLayoutFocusFirst(slide, slide_index, total_slides) ==
    LET is_first == slide_index = 0
        is_last == slide_index = total_slides - 1
        has_image == Truthy(slide.image_url)
        bullet_count == Len(slide.bullet_points)
    IN  IF is_first
        THEN (IF has_image THEN "hero_background" ELSE "bold_section_divider")
        ELSE IF is_last THEN "conclusion"
        ELSE IF has_image /\ bullet_count <= 1 THEN "image_focus"
        ELSE IF has_image /\ bullet_count <= 2 THEN "hero_right"
        ELSE IF has_image THEN "two_column"
        ELSE IF bullet_count >= 4 THEN "card_layout"
        ELSE IF bullet_count <= 2 THEN "minimal_text"
        ELSE "accent_left_layout"

\* A plausible slip: HERO_RIGHT kept for exactly two bullets, which lets the
\* IMAGE_FOCUS rule behind it decide for fewer.
SelectLayoutHeroRightAtTwo(slide, slide_index, total_slides) ==
    LET is_first == slide_index = 0
        is_last == slide_index = total_slides - 1
        has_image == Truthy(slide.image_url)
        bullet_count == Len(slide.bullet_points)
    IN  IF is_first
        THEN (IF has_image THEN "hero_background" ELSE "bold_section_divider")
        ELSE IF is_last THEN "conclusion"
        ELSE IF has_image /\ bullet_count = 2 THEN "hero_right"
        ELSE IF has_image /\ bullet_count <= 1 THEN "image_focus"
        ELSE IF has_image THEN "two_column"
        ELSE IF bullet_count >= 4 THEN "card_layout"
        ELSE IF bullet_count <= 2 THEN "minimal_text"
        ELSE "accent_left_layout"

\* A plausible slip: the last-slide rule placed after the image rules.
SelectLayoutImageBeforeLast(slide, slide_index, total_slides) ==
    LET is_first == slide_index = 0
        is_last == slide_index = total_slides - 1
        has_image == Truthy(slide.image_url)
        bullet_count == Len(slide.bullet_points)
    IN  IF is_first
        THEN (IF has_image THEN "hero_background" ELSE "bold_section_divider")
        ELSE IF has_image /\ bullet_count <= 2 THEN "hero_right"
        ELSE IF has_image THEN "two_column"
        ELSE IF is_last THEN "conclusion"
        ELSE IF bullet_count >= 4 THEN "card_layout"
        ELSE IF bullet_count <= 2 THEN "minimal_text"
        ELSE "accent_left_layout"

\* select_layout, rule by rule in the order of the code.  The handler
\* returning TITLE_AND_BULLETS has nothing to catch: every operation of the
\* body is defined on a SlideWithImage and two ints.
select_layout(slide, slide_index, total_slides) ==
    LET is_first == slide_index = 0
        is_last == slide_index = total_slides - 1
        has_image == Truthy(slide.image_url)
        bullet_count == Len(slide.bullet_points)
    IN  IF is_first
        THEN (IF has_image THEN "hero_background" ELSE "bold_section_divider")
        ELSE IF is_last THEN "conclusion"
        ELSE IF has_image /\ bullet_count <= 2 THEN "hero_right"
        ELSE IF has_image /\ bullet_count <= 1 THEN "image_focus"
        ELSE IF has_image THEN "two_column"
        ELSE IF bullet_count >= 4 THEN "card_layout"
        ELSE IF bullet_count <= 2 THEN "minimal_text"
        ELSE "accent_left_layout"

LayoutInit ==
    /\ largs \in [slide : {LayoutSlide(u, b) : u \in {NoImage, "", "wide"},
                                               b \in 0..MaxBullets},
                  slide_index : 0..MaxTotal,
                  total_slides : 0..MaxTotal]
    /\ layout = "none"

\* layout = select_layout(slide, i, total)
SelectLayout ==
    /\ layout = "none"
    /\ layout' = select_layout(largs.slide, largs.slide_index, largs.total_slides)
    /\ UNCHANGED largs

LayoutNext == SelectLayout /\ UNCHANGED <<pipeVars, patchVars, imageVars, targetVars, fitVars, slideVars, appVars>>

LayoutStart == PipeIdle /\ PatchIdle /\ ImageIdle /\ LayoutInit /\ TargetsIdle /\ FrontIdle

LayoutSpec == LayoutStart /\ [][LayoutNext]_vars

-----------------------------------------------------------------------------
(* presentation_targets.py: words per minute and slide range (TargetsSpec).*)
(* An audience is a text over the ASCII letters and the space.             *)

MaxPieces == 2          \* audiences put together from 0..MaxPieces pieces

DEFAULT_WPM == 135
WPM_SLOW_MIN == 120
WPM_SLOW_MAX == 130
WPM_FAST_MIN == 140
WPM_FAST_MAX == 150
MAX_DURATION == 120

\* str.lower() on ASCII letters.
Lower(s) ==
    LET upper == <<"A", "B", "C", "D", "E", "F", "G", "H", "I", "J", "K", "L", "M", "N", "O", "P", "Q", "R", "S", "T", "U", "V", "W", "X", "Y", "Z">>
        lower == <<"a", "b", "c", "d", "e", "f", "g", "h", "i", "j", "k", "l", "m", "n", "o", "p", "q", "r", "s", "t", "u", "v", "w", "x", "y", "z">>
        LowerChar(c) == IF \E k \in 1..Len(upper) : upper[k] = c
                        THEN lower[CHOOSE k \in 1..Len(upper) : upper[k] = c]
                        ELSE c
    IN  [i \in 1..Len(s) |-> LowerChar(s[i])]

\* str.strip() of spaces.
StripText(s) ==
    LET inked == {i \in 1..Len(s) : s[i] # " "}
    IN  IF inked = {} THEN <<>>
        ELSE SubSeq(s, CHOOSE i \in inked : \A j \in inked : i <= j,
                       CHOOSE i \in inked : \A j \in inked : i >= j)

SlowTerms == <<<<"s", "t", "u", "d", "e", "n", "t">>,
              <<"g", "e", "n", "e", "r", "a", "l">>,
              <<"p", "u", "b", "l", "i", "c">>,
              <<"b", "e", "g", "i", "n", "n", "e", "r">>,
              <<"o", "v", "e", "r", "v", "i", "e", "w">>,
              <<"i", "n", "t", "r", "o", "d", "u", "c", "t", "o", "r", "y">>,
              <<"e", "v", "e", "r", "y", "o", "n", "e">>>>

FastTerms == <<<<"e", "x", "p", "e", "r", "t">>,
              <<"t", "e", "c", "h", "n", "i", "c", "a", "l">>,
              <<"e", "n", "g", "i", "n", "e", "e", "r">>,
              <<"d", "e", "v", "e", "l", "o", "p", "e", "r">>,
              <<"s", "p", "e", "c", "i", "a", "l", "i", "s", "t">>,
              <<"p", "r", "o", "f", "e", "s", "s", "i", "o", "n", "a", "l">>>>

\* A plausible slip: the fast family tested before the slow one.
WpmFastFirst(audience) ==
    LET lower == StripText(Lower(audience))
        AnyTerm(terms) == \E k \in 1..Len(terms) : Contains(lower, terms[k])
    IN  IF audience = <<>> \/ StripText(audience) = <<>> THEN DEFAULT_WPM
        ELSE IF AnyTerm(FastTerms) THEN (WPM_FAST_MIN + WPM_FAST_MAX) \div 2
        ELSE IF AnyTerm(SlowTerms) THEN (WPM_SLOW_MIN + WPM_SLOW_MAX) \div 2
        ELSE DEFAULT_WPM

get_wpm_for_audience(audience) ==
    LET lower == StripText(Lower(audience))
        AnyTerm(terms) == \E k \in 1..Len(terms) : Contains(lower, terms[k])
    IN  IF audience = <<>> \/ StripText(audience) = <<>> THEN DEFAULT_WPM
        ELSE IF AnyTerm(SlowTerms) THEN (WPM_SLOW_MIN + WPM_SLOW_MAX) \div 2
        ELSE IF AnyTerm(FastTerms) THEN (WPM_FAST_MIN + WPM_FAST_MAX) \div 2
        ELSE DEFAULT_WPM

\* speaker_profile: None, or an object with age and experience_level
\* (None and "" are both the empty text here: both are falsy).
NoProfile == [given |-> FALSE, age |-> 0, experience_level |-> <<>>]
Profile(a, level) == [given |-> TRUE, age |-> a, experience_level |-> level]

\* wpm after the speaker_profile adjustment.
AdjustedWpm(wpm, speaker_profile) ==
    IF ~speaker_profile.given THEN wpm
    ELSE IF speaker_profile.age < 18 THEN Min(wpm, WPM_SLOW_MAX)
    ELSE IF /\ speaker_profile.age >= 50
            /\ speaker_profile.experience_level # <<>>
            /\ Lower(speaker_profile.experience_level) = <<"e", "x", "p", "e", "r", "t">>
         THEN Max(wpm, WPM_FAST_MIN)
    ELSE wpm

\* A plausible slip: max_slides without the max() against min_slides.
TargetsMaxUnclamped(duration_minutes, audience, speaker_profile) ==
    LET wpm == AdjustedWpm(get_wpm_for_audience(audience), speaker_profile)
    IN  [target_word_count |-> duration_minutes * wpm,
         min_slides |-> Max(MIN_SLIDES_FLOOR, duration_minutes * SLIDES_PER_MINUTE_MIN),
         max_slides |-> duration_minutes * SLIDES_PER_MINUTE_MAX,
         wpm |-> wpm]

\* A plausible slip: the word count taken from the default rate.
TargetsDefaultRate(duration_minutes, audience, speaker_profile) ==
    LET wpm == AdjustedWpm(get_wpm_for_audience(audience), speaker_profile)
        range == SlideRange(duration_minutes)
    IN  [target_word_count |-> duration_minutes * DEFAULT_WPM,
         min_slides |-> range.min_slides,
         max_slides |-> range.max_slides,
         wpm |-> wpm]

compute_presentation_targets(duration_minutes, audience, speaker_profile) ==
    LET wpm == AdjustedWpm(get_wpm_for_audience(audience), speaker_profile)
        min_slides == Max(MIN_SLIDES_FLOOR, duration_minutes * SLIDES_PER_MINUTE_MIN)
        max_slides == Max(min_slides, duration_minutes * SLIDES_PER_MINUTE_MAX)
    IN  [target_word_count |-> duration_minutes * wpm,
         min_slides |-> min_slides,
         max_slides |-> max_slides,
         wpm |-> wpm]

GeneralPublic == <<"g", "e", "n", "e", "r", "a", "l", " ", "p", "u", "b", "l", "i", "c">>

\* Pieces audiences are put together from: every term, a space, a plural
\* s, capitals, a word of neither family.
AudiencePieces ==
    {SlowTerms[k] : k \in 1..Len(SlowTerms)} \cup {FastTerms[k] : k \in 1..Len(FastTerms)}
    \cup {<<" ">>, <<"s">>, <<"S", "T", "U", "D", "E", "N", "T">>, <<"E", "x", "p", "e", "r", "t">>, <<"m", "a", "n", "a", "g", "e", "r">>}

RECURSIVE Joined(_)
Joined(pieces) == IF pieces = <<>> THEN <<>> ELSE Head(pieces) \o Joined(Tail(pieces))

PieceAudiences ==
    {Joined(q) : q \in UNION {[1..k -> AudiencePieces] : k \in 0..MaxPieces}}
    \cup {GeneralPublic}

Profiles ==
    {NoProfile} \cup {Profile(a, level) : a \in {17, 18, 49, 50},
                        level \in {<<>>, <<"E", "x", "p", "e", "r", "t">>, <<"b", "e", "g", "i", "n", "n", "e", "r">>}}

\* The calls drawn: every duration with a few audiences and every profile,
\* and every pieced audience, without profile, with two durations.
TargetsInit ==
    /\ \/ targs \in [duration_minutes : 1..MAX_DURATION,
                     audience : {<<>>, <<" ">>, GeneralPublic, FastTerms[1]},
                     speaker_profile : Profiles]
       \/ targs \in [duration_minutes : {1, 5},
                     audience : PieceAudiences,
                     speaker_profile : {NoProfile}]
    /\ computed = NoTargets

\* compute_presentation_targets(duration_minutes, audience, speaker_profile)
ComputeTargets ==
    /\ computed = NoTargets
    /\ computed' = compute_presentation_targets(targs.duration_minutes,
                                               targs.audience,
                                               targs.speaker_profile)
    /\ UNCHANGED targs

TargetsNext == ComputeTargets /\ UNCHANGED <<pipeVars, patchVars, imageVars, layoutVars, fitVars, slideVars, appVars>>

TargetsStart == PipeIdle /\ PatchIdle /\ ImageIdle /\ LayoutIdle /\ TargetsInit /\ FrontIdle

TargetsSpec == TargetsStart /\ [][TargetsNext]_vars


-----------------------------------------------------------------------------
(* PPTExporter._add_picture_fit_centered (ppt_exporter.py) on drawn images *)
(* and boxes (FitSpec).  Lengths in inches are exact fractions num/den;    *)
(* the box is given in thousandths of an inch, as the templates write it.  *)

MaxPx == 6              \* images of 0..MaxPx by 0..MaxPx pixels

IMG_DPI == 96
EMUS_PER_INCH == 914400

RECURSIVE GCD(_, _)
GCD(a, b) == IF b = 0 THEN a ELSE GCD(b, a % b)

\* The fraction n/d in lowest terms (d > 0).
Frac(n, d) == LET g == GCD(n, d) IN [num |-> n \div g, den |-> d \div g]

Thousandths(n) == Frac(n, 1000)

Times(x, y) == Frac(x.num * y.num, x.den * y.den)
Over(x, y) == Frac(x.num * y.den, x.den * y.num)
Plus(x, y) == Frac(x.num * y.den + y.num * x.den, x.den * y.den)
Minus(x, y) == Frac(x.num * y.den - y.num * x.den, x.den * y.den)
AtMost(x, y) == x.num * y.den <= y.num * x.den

\* pptx.util.Inches(x): int(x * 914400), the length in EMU, truncated.
Inches(x) ==
    LET g == GCD(EMUS_PER_INCH, x.den)
    IN  (x.num * (EMUS_PER_INCH \div g)) \div (x.den \div g)

\* What the image stream holds: img.size when PIL can open it.
Image(d, w, h) == [decodes |-> d, w_px |-> w, h_px |-> h]
Undecodable == Image(FALSE, 0, 0)

\* _get_image_size_inches: None (the empty tuple here) when PIL raises or
\* a side is not positive, else (w_px / 96, h_px / 96).
get_image_size_inches(image) ==
    IF ~image.decodes THEN <<>>
    ELSE IF image.w_px <= 0 \/ image.h_px <= 0 THEN <<>>
    ELSE <<Frac(image.w_px, IMG_DPI), Frac(image.h_px, IMG_DPI)>>

\* A plausible slip: the image scaled to cover the box.
FitScaleCover(box_width_inch, box_height_inch, img_w, img_h) ==
    LET by_width == Over(box_width_inch, img_w)
        by_height == Over(box_height_inch, img_h)
    IN  IF AtMost(by_width, by_height) THEN by_height ELSE by_width

\* scale = min(box_width_inch / img_w, box_height_inch / img_h)
FitScale(box_width_inch, box_height_inch, img_w, img_h) ==
    LET by_width == Over(box_width_inch, img_w)
        by_height == Over(box_height_inch, img_h)
    IN  IF AtMost(by_width, by_height) THEN by_width ELSE by_height

\* _add_picture_fit_centered: the locals fit_w, fit_h, left_cen, top_cen
\* and the picture handed to add_picture, which may raise.
add_picture_fit_centered(image, left_inch, top_inch, box_width_inch, box_height_inch, addRaises) ==
    LET size == get_image_size_inches(image) IN
    IF size = <<>> THEN [NoPicture EXCEPT !.done = TRUE]
    ELSE LET img_w == size[1]
             img_h == size[2]
             scale == FitScale(box_width_inch, box_height_inch, img_w, img_h)
             fit_w == Times(img_w, scale)
             fit_h == Times(img_h, scale)
             left_cen == Plus(left_inch, Over(Minus(box_width_inch, fit_w), Frac(2, 1)))
             top_cen == Plus(top_inch, Over(Minus(box_height_inch, fit_h), Frac(2, 1)))
         IN  [done |-> TRUE,
              added |-> ~addRaises,
              fit |-> <<[fit_w |-> fit_w, fit_h |-> fit_h,
                         left_cen |-> left_cen, top_cen |-> top_cen]>>,
              picture |-> IF addRaises THEN <<>>
                          ELSE <<[left |-> Inches(left_cen),
                                  top |-> Inches(top_cen),
                                  width |-> Inches(fit_w),
                                  height |-> Inches(fit_h)]>>]

\* PlaceholderBox(left, top, width, height), in thousandths of an inch.
Box(l, t, w, h) == [left |-> l, top |-> t, width |-> w, height |-> h]

\* The boxes the renderers pass (the whole slide for HERO_BACKGROUND, the
\* image_area of HERO_RIGHT, TWO_COLUMN and IMAGE_FOCUS) and a few more.
WholeSlide == Box(0, 0, 13333, 7500)
ImageArea(layout_type) ==
    CASE layout_type = "hero_right" -> Box(6300, 0, 7000, 7500)
      [] layout_type = "two_column" -> Box(6600, 1600, 5900, 4000)
      [] layout_type = "image_focus" -> Box(590, 470, 12150, 5200)
      [] OTHER -> WholeSlide

FitBoxes == {WholeSlide, ImageArea("hero_right"), ImageArea("two_column"),
             ImageArea("image_focus"),
             Box(1000, 500, 1000, 3000), Box(250, 250, 2000, 2000),
             Box(0, 0, 1, 1)}

FitImages == {Undecodable} \cup {Image(TRUE, w, h) : w, h \in 0..MaxPx}

FitInit ==
    /\ fargs \in [image : FitImages, box : FitBoxes, addRaises : BOOLEAN]
    /\ fitted = NoPicture

\* self._add_picture_fit_centered(slide, img_stream, left, top, width, height)
AddPictureFitCentered ==
    /\ ~fitted.done
    /\ fitted' = add_picture_fit_centered(fargs.image,
                                          Thousandths(fargs.box.left),
                                          Thousandths(fargs.box.top),
                                          Thousandths(fargs.box.width),
                                          Thousandths(fargs.box.height),
                                          fargs.addRaises)
    /\ UNCHANGED fargs

FitNext ==
    AddPictureFitCentered
        /\ UNCHANGED <<pipeVars, patchVars, imageVars, layoutVars, targetVars,
                       slideVars, appVars>>

FitStart ==
    /\ PipeIdle /\ PatchIdle /\ ImageIdle /\ LayoutIdle /\ TargetsIdle
    /\ FitInit /\ SlideIdle /\ AppIdle

FitSpec == FitStart /\ [][FitNext]_vars


-----------------------------------------------------------------------------
(* PPTExporter._add_content_slide (ppt_exporter.py) on drawn slides        *)
(* (SlideSpec).  A title is `lead` spaces, `body` letters, `trail` spaces. *)

TITLE_MAX_CHARS == 120
CAPTION_MAX_CHARS == 80
MAX_BULLETS_DISPLAY == 6

Title(l, b, t) == [lead |-> l, body |-> b, trail |-> t]

\* The text of a title box: so many letters, then "…" or not.
TitleText(n, cut) == [chars |-> n, ellipsis |-> cut]

\* _prepare_title: an empty title as it is, else stripped, and cut to
\* max_chars - 1 characters and "…" when longer than max_chars.
prepare_title(title, max_chars) ==
    IF title.lead + title.body + title.trail = 0 THEN TitleText(0, FALSE)
    ELSE IF title.body <= max_chars THEN TitleText(title.body, FALSE)
    ELSE TitleText(max_chars - 1, TRUE)

\* How fetching the image of the slide ends: _fetch_image raises, or
\* returns a stream; the stream may not be an image, add_picture may raise.
Fetch(r, image, a) == [raises |-> r, image |-> image, addRaises |-> a]

GoodFetch == Fetch(FALSE, Image(TRUE, 4, 3), FALSE)

Fetches == {Fetch(TRUE, Undecodable, FALSE), Fetch(FALSE, Undecodable, FALSE),
            GoodFetch, Fetch(FALSE, Image(TRUE, 4, 3), TRUE)}

\* img_stream = self._fetch_image(url), then _add_picture_fit_centered
\* into the box: whether the picture is on the slide.
PictureAdded(fetch, box) ==
    /\ ~fetch.raises
    /\ add_picture_fit_centered(fetch.image, Thousandths(box.left),
                                Thousandths(box.top), Thousandths(box.width),
                                Thousandths(box.height), fetch.addRaises).added

\* `if slide_data.speaker_notes:` the notes slide gets the text.
AttachNotes(slide) ==
    IF slide.speaker_notes # "" THEN <<slide.speaker_notes>> ELSE <<>>

\* _add_content_slide: the layout selected, then its renderer, then the
\* notes.  _render_hero_background returns before its text boxes when the
\* image cannot be fetched or placed; the other renderers with an image
\* write title and bullets first and lose the picture only.
add_content_slide(slide, slide_index, total_slides, fetch) ==
    LET chosen == select_layout(slide, slide_index, total_slides)
        heading == prepare_title(slide.title, TITLE_MAX_CHARS)
        bullets == Min(Len(slide.bullet_points), MAX_BULLETS_DISPLAY)
        Written(text, points, picture) ==
            [done |-> TRUE, layout |-> chosen, title |-> text,
             bullets |-> points, picture |-> picture,
             notes |-> AttachNotes(slide),
             images_added |-> IF picture THEN 1 ELSE 0]
    IN  CASE chosen = "bold_section_divider" ->
               Written(<<heading>>, Min(bullets, 1), FALSE)
          [] chosen = "hero_background" /\ Truthy(slide.image_url) ->
               IF PictureAdded(fetch, WholeSlide)
               THEN Written(<<heading>>, Min(bullets, 3), TRUE)
               ELSE Written(<<>>, 0, FALSE)
          [] chosen \in {"hero_right", "two_column"} ->
               Written(<<heading>>, bullets,
                       Truthy(slide.image_url) /\ PictureAdded(fetch, ImageArea(chosen)))
          [] chosen = "image_focus" ->
               Written(<<prepare_title(slide.title, CAPTION_MAX_CHARS)>>,
                       Min(bullets, 1),
                       Truthy(slide.image_url) /\ PictureAdded(fetch, ImageArea(chosen)))
          [] OTHER -> Written(<<heading>>, bullets, FALSE)

SlideTitles == {Title(0, 0, 0), Title(1, 0, 0), Title(1, 5, 1),
                Title(0, TITLE_MAX_CHARS, 0), Title(0, TITLE_MAX_CHARS + 1, 0)}

ExportSlides ==
    {[title |-> t, bullet_points |-> [k \in 1..b |-> "point"],
      speaker_notes |-> n, image_url |-> u]
       : t \in SlideTitles, b \in 0..MaxBullets, n \in {"", "notes"},
         u \in {NoImage, "", "wide"}}

\* export calls _add_content_slide(prs, s, slide_index=i, total_slides=total)
\* for i, s in enumerate(slides).
SlideInit ==
    /\ sargs \in [slide : ExportSlides, slide_index : 0..MaxTotal,
                  total_slides : 1..MaxTotal, fetch : Fetches]
    /\ sargs.slide_index < sargs.total_slides
    /\ rendered = NoSlideShown

AddContentSlide ==
    /\ ~rendered.done
    /\ rendered' = add_content_slide(sargs.slide, sargs.slide_index,
                                     sargs.total_slides, sargs.fetch)
    /\ UNCHANGED sargs

SlideNext ==
    AddContentSlide
        /\ UNCHANGED <<pipeVars, patchVars, imageVars, layoutVars, targetVars,
                       fitVars, appVars>>

SlideStart ==
    /\ PipeIdle /\ PatchIdle /\ ImageIdle /\ LayoutIdle /\ TargetsIdle
    /\ FitIdle /\ SlideInit /\ AppIdle

SlideSpec == SlideStart /\ [][SlideNext]_vars


-----------------------------------------------------------------------------
(* The web front-end (app.py): the script thread of one browser session,   *)
(* which runs main and the polling fragment _progress_ui one after the     *)
(* other, and the run_agent threads it starts (AppSpec).  A thread and the *)
(* script thread interleave at every write and read of the shared dicts.   *)
(* Dicts are numbered in the order of their creation; a thread keeps the   *)
(* dicts it was started with.                                              *)

MaxSubmissions == 2     \* form submissions in a session
MaxResets == 1          \* clicks on "Neue Präsentation" / "Erneut versuchen"

\* _ensure_progress_state: the dict stored under KEY_PROGRESS.
NewProgress == [step |-> "", percent |-> 0, status |-> "idle", error |-> ""]

\* The result holder after clear(): no key (-1).  A key holds None (0) or
\* what the run with that number produced.
EmptyHolder == [ppt |-> -1, docx |-> -1, slide_count |-> -1,
                images_included |-> -1]

\* `st.session_state.get(KEY_RESULT_FILES) or {}` and the four files.get.
FilesRead(state, holders) ==
    IF state.result_files = 0
    THEN [ppt |-> 0, docx |-> 0, slide_count |-> 0, images_included |-> 0]
    ELSE LET h == holders[state.result_files]
             Get(v, default) == IF v = -1 THEN default ELSE v
         IN  [ppt |-> Get(h.ppt, 0), docx |-> Get(h.docx, 0),
              slide_count |-> Get(h.slide_count, 0),
              images_included |-> Get(h.images_included, 0)]

AppInit ==
    /\ session_state = [progress |-> 1, result_files |-> 0]
    /\ progressDicts = <<NewProgress>>
    /\ holderDicts = <<>>
    /\ threads = <<>>
    /\ page = [pc |-> "ready", status |-> "idle", files |-> <<>>,
               submissions |-> 0, resets |-> 0]

\* A plausible slip: the test for a running generation left out.
MayStartAlways(status) == TRUE

\* `if progress["status"] == "running": _progress_ui(); return`
MayStart(status) == status # "running"

\* The form is submitted and main runs up to its call of _progress_ui.
\* Without topic, or while a generation is running, nothing is started.
\* Else progress is set to running, the holder is made and cleared, and a
\* run_agent thread is started on these two dicts.
Submit ==
    /\ page.pc = "ready"
    /\ page.submissions < MaxSubmissions
    /\ page' = [page EXCEPT !.pc = "poll", !.submissions = @ + 1]
    /\ \E topic \in {"", "topic"} :
         LET p == session_state.progress
             h == IF session_state.result_files = 0 THEN Len(holderDicts) + 1
                  ELSE session_state.result_files
         IN  IF topic = "" \/ ~MayStart(progressDicts[p].status)
             THEN UNCHANGED <<session_state, progressDicts, holderDicts, threads>>
             ELSE /\ progressDicts' =
                       [progressDicts EXCEPT ![p] = [step |-> "Starte", percent |-> 0,
                                                     status |-> "running", error |-> ""]]
                  /\ session_state' = [session_state EXCEPT !.result_files = h]
                  /\ holderDicts' = IF h > Len(holderDicts)
                                    THEN Append(holderDicts, EmptyHolder)
                                    ELSE [holderDicts EXCEPT ![h] = EmptyHolder]
                  /\ threads' = Append(threads, [progress |-> p, holder |-> h,
                                                 pc |-> "config", script |-> FALSE])

\* Thread i moves on to `position`.
ThreadAt(i, position) == [threads EXCEPT ![i].pc = position]

\* Config.from_env() and PresentationAgent(config): a ValueError goes to
\* the first handler of run_agent.
Configure(i) ==
    /\ threads[i].pc = "config"
    /\ \E ok \in BOOLEAN :
         threads' = ThreadAt(i, IF ok THEN "agent" ELSE "status_error")
    /\ UNCHANGED <<session_state, progressDicts, holderDicts, page>>

\* on_progress, called by the agent: progress["step"], progress["percent"].
OnProgress(i) ==
    /\ threads[i].pc = "agent"
    /\ progressDicts[threads[i].progress].step # "stage"
    /\ progressDicts' = [progressDicts EXCEPT ![threads[i].progress].step = "stage",
                                              ![threads[i].progress].percent = 50]
    /\ UNCHANGED <<session_state, holderDicts, threads, page>>

\* agent.run returns its ExportResult, with a script_path or without, or
\* raises.
AgentEnds(i) ==
    /\ threads[i].pc = "agent"
    /\ \/ \E script \in BOOLEAN :
            threads' = [threads EXCEPT ![i].pc = "ppt", ![i].script = script]
       \/ threads' = ThreadAt(i, "status_error")
    /\ UNCHANGED <<session_state, progressDicts, holderDicts, page>>

\* The writes to result_holder, one at a time; reading a file may raise.
\* The presentation was just written by the run: ppt_path exists.
StoreResult(i) ==
    LET h == threads[i].holder
        Put(key, value) == holderDicts' = [holderDicts EXCEPT ![h][key] = value]
    IN  /\ \/ /\ threads[i].pc = "ppt"
              /\ \/ Put("ppt", i) /\ threads' = ThreadAt(i, "docx")
                 \/ UNCHANGED holderDicts /\ threads' = ThreadAt(i, "status_error")
           \/ /\ threads[i].pc = "docx"
              /\ Put("docx", 0)
              /\ threads' = ThreadAt(i, IF threads[i].script THEN "docx_bytes"
                                        ELSE "slide_count")
           \/ /\ threads[i].pc = "docx_bytes"
              /\ \/ Put("docx", i) /\ threads' = ThreadAt(i, "slide_count")
                 \/ UNCHANGED holderDicts /\ threads' = ThreadAt(i, "status_error")
           \/ /\ threads[i].pc = "slide_count"
              /\ Put("slide_count", i)
              /\ threads' = ThreadAt(i, "images_included")
           \/ /\ threads[i].pc = "images_included"
              /\ Put("images_included", i)
              /\ threads' = ThreadAt(i, "status_done")
        /\ UNCHANGED <<session_state, progressDicts, page>>

\* progress["status"] = "done", then percent and step.
ReportDone(i) ==
    LET p == threads[i].progress IN
    /\ \/ /\ threads[i].pc = "status_done"
          /\ progressDicts' = [progressDicts EXCEPT ![p].status = "done"]
          /\ threads' = ThreadAt(i, "percent")
       \/ /\ threads[i].pc = "percent"
          /\ progressDicts' = [progressDicts EXCEPT ![p].percent = 100]
          /\ threads' = ThreadAt(i, "step")
       \/ /\ threads[i].pc = "step"
          /\ progressDicts' = [progressDicts EXCEPT ![p].step = "Fertig"]
          /\ threads' = ThreadAt(i, "finished")
    /\ UNCHANGED <<session_state, holderDicts, page>>

\* The handlers of run_agent: progress["status"] = "error", then the text.
ReportError(i) ==
    LET p == threads[i].progress IN
    /\ \/ /\ threads[i].pc = "status_error"
          /\ progressDicts' = [progressDicts EXCEPT ![p].status = "error"]
          /\ threads' = ThreadAt(i, "error_text")
       \/ /\ threads[i].pc = "error_text"
          /\ progressDicts' = [progressDicts EXCEPT ![p].error = "failed"]
          /\ threads' = ThreadAt(i, "finished")
    /\ UNCHANGED <<session_state, holderDicts, page>>

\* _progress_ui, called by main or re-run by the fragment timer: it reads
\* progress["status"]; only with "done" does it go on to the files.
PollStatus ==
    /\ page.pc \in {"ready", "poll"}
    /\ LET status == progressDicts[session_state.progress].status IN
       page' = [page EXCEPT !.status = status,
                            !.files = <<>>,
                            !.pc = IF status = "done" THEN "files" ELSE "ready"]
    /\ UNCHANGED <<session_state, progressDicts, holderDicts, threads>>

\* _progress_ui with status "done": the files are read and shown.
PollFiles ==
    /\ page.pc = "files"
    /\ page' = [page EXCEPT !.files = <<FilesRead(session_state, holderDicts)>>,
                            !.pc = "ready"]
    /\ UNCHANGED <<session_state, progressDicts, holderDicts, threads>>

\* One of the buttons shown with "done" and "error" is clicked: both keys
\* are popped, the script is re-run and _ensure_progress_state stores a new
\* dict.
Reset ==
    /\ page.pc = "ready"
    /\ page.status \in {"done", "error"}
    /\ progressDicts[session_state.progress].status = page.status
    /\ page.resets < MaxResets
    /\ progressDicts' = Append(progressDicts, NewProgress)
    /\ session_state' = [progress |-> Len(progressDicts) + 1, result_files |-> 0]
    /\ page' = [page EXCEPT !.pc = "poll", !.resets = @ + 1, !.files = <<>>]
    /\ UNCHANGED <<holderDicts, threads>>

backVars == <<pipeVars, patchVars, imageVars, layoutVars, targetVars, fitVars,
              slideVars>>

AppNext ==
    \/ Submit /\ UNCHANGED backVars
    \/ \E i \in 1..Len(threads) : Configure(i) /\ UNCHANGED backVars
    \/ \E i \in 1..Len(threads) : OnProgress(i) /\ UNCHANGED backVars
    \/ \E i \in 1..Len(threads) : AgentEnds(i) /\ UNCHANGED backVars
    \/ \E i \in 1..Len(threads) : StoreResult(i) /\ UNCHANGED backVars
    \/ \E i \in 1..Len(threads) : ReportDone(i) /\ UNCHANGED backVars
    \/ \E i \in 1..Len(threads) : ReportError(i) /\ UNCHANGED backVars
    \/ PollStatus /\ UNCHANGED backVars
    \/ PollFiles /\ UNCHANGED backVars
    \/ Reset /\ UNCHANGED backVars

AppStart ==
    /\ PipeIdle /\ PatchIdle /\ ImageIdle /\ LayoutIdle /\ TargetsIdle
    /\ FitIdle /\ SlideIdle /\ AppInit

AppSpec == AppStart /\ [][AppNext]_vars

-----------------------------------------------------------------------------
(* Properties of the pipeline run (checked under Spec).                    *)

Last(q) == q[Len(q)]

InRange(slide_list) ==
    /\ SlideRange(duration).min_slides <= Len(slide_list)
    /\ Len(slide_list) <= SlideRange(duration).max_slides

\* The second SlideGenerator call has been issued (it is awaited at
\* "slides_retry", and counted in calls once it has ended).
SecondSlideCallIssued == pc = "slides_retry" \/ calls.slides >= 2

\* C1: the slide generator is invoked a second time, with the strict
\* slide-count instruction, exactly when the first invocation returned a
\* list whose length is outside [min_slides, max_slides]; it is never invoked
\* a third time; the list of the last invocation is what the notes stage
\* receives, in range or not.
C1_SlideRetryOnce ==
    /\ calls.slides <= 2
    /\ strictFlags \in {<<>>, <<FALSE>>, <<FALSE, TRUE>>}
    /\ Len(strictFlags) = calls.slides
    /\ Len(slideReturns) >= 1 =>
         (SecondSlideCallIssued <=> ~InRange(slideReturns[1]))
    /\ Len(slideReturns) = 0 => ~SecondSlideCallIssued
    /\ pc = "notes" =>
         /\ Len(slideReturns) = calls.slides
         /\ slides = Last(slideReturns)
    /\ calls.notes >= 1 =>
         /\ Len(slideReturns) = calls.slides
         /\ notesInput = Last(slideReturns)

\* C1 witness: the retry was made, its list is still outside the range, and
\* the notes stage has received that list.
C1_Witness ==
    /\ calls.slides = 2
    /\ calls.notes = 1
    /\ ~InRange(slideReturns[2])
    /\ notesInput = slideReturns[2]
    /\ slideReturns[1] # slideReturns[2]

\* review_and_improve has returned: the run stands before the fact-check
\* stage or has entered it.
ReviewReturned == pc = "reviewed" \/ calls.fact_check >= 1

\* The manuscript review_and_improve returned.
ReviewResult == IF pc = "reviewed" THEN manuscript ELSE factInput

EvaluatedBelowThreshold ==
    ~Failed(evaluation) /\ evaluation.val < APPROVE_SCORE

\* C2: after an evaluation with a score below 8 exactly one rewrite call is
\* made; the manuscript it produced is returned as it is, with the
\* evaluation's score; nothing is evaluated again: at most one evaluation
\* and one rewrite call a review.
C2_OneRewrite ==
    /\ calls.evaluate <= 1
    /\ calls.rewrite <= 1
    /\ (calls.rewrite = 1 \/ pc = "rewrite") => EvaluatedBelowThreshold
    /\ (ReviewReturned /\ EvaluatedBelowThreshold) =>
         /\ calls.evaluate = 1
         /\ calls.rewrite = 1
         /\ ~Failed(rewritten) =>
              /\ ReviewResult = rewritten.val
              /\ score = evaluation.val

\* C2 witness: a low score, a rewrite that differs from the draft, returned.
C2_Witness ==
    /\ ReviewReturned
    /\ EvaluatedBelowThreshold
    /\ ~Failed(rewritten)
    /\ rewritten.val # draft
    /\ ReviewResult = rewritten.val
    /\ score = APPROVE_SCORE - 1

\* C3: after an evaluation with a score of 8 or more the input manuscript
\* is returned unchanged with that score and no rewrite call is made.
C3_ApprovedUnchanged ==
    (~Failed(evaluation) /\ evaluation.val >= APPROVE_SCORE) =>
        /\ ReviewReturned
        /\ ReviewResult = draft
        /\ score = evaluation.val
        /\ calls.rewrite = 0
        /\ rewritten = NotCalled

\* C3 witness: the score is exactly 8 and the review has returned.
C3_Witness ==
    /\ ~Failed(evaluation)
    /\ evaluation.val = APPROVE_SCORE
    /\ pc = "reviewed"
    /\ manuscript = draft

\* C4: a failed evaluation call does not fail the run: the original
\* manuscript is returned with score 0, no rewrite call is made, and the run
\* goes on to the fact-check stage.
C4_EvaluationFailSoft ==
    evaluation.err \in LLMFailures =>
        /\ ReviewReturned
        /\ ReviewResult = draft
        /\ score = 0
        /\ calls.rewrite = 0
        /\ calls.fact_check = 0 => (pc = "reviewed" /\ outcome = "running")

\* C4 witness: the evaluation failed with a service error and the fact-check
\* stage has run on the draft.
C4_Witness ==
    /\ evaluation.err = "ServiceError"
    /\ calls.fact_check = 1
    /\ factInput = draft
    /\ score = 0

\* C5: fact_check_and_patch raises nothing: when the analysis call or the
\* patch step fails it returns its input manuscript, so the slide stage is
\* always entered with a manuscript.
C5_FactCheckFailSoft ==
    calls.fact_check >= 1 =>
        /\ calls.slides = 0 => (pc = "slides" /\ outcome = "running")
        /\ manuscript # NoManuscript
        /\ (Failed(factOutcome.analysis) \/ factOutcome.patch = "raised") =>
              manuscript = factInput

\* C5 witness: the analysis returned issues, the patch step raised, and the
\* slide stage has run.
C5_Witness ==
    /\ factOutcome.patch = "raised"
    /\ calls.slides >= 1
    /\ apply_patches(factInput, factOutcome.analysis.val) # factInput
    /\ manuscript = factInput

\* C5 witness, second case: the analysis call failed with a service error.
C5_WitnessAnalysisFailed ==
    /\ factOutcome.analysis.err = "ServiceError"
    /\ pc = "slides"

\* The slide numbers of a list are 1, 2, ..., n in list order.
NumberedInOrder(slide_list) ==
    \A i \in 1..Len(slide_list) : slide_list[i].slide_number = i

\* C15: every slide list SlideGenerator.generate returns has unique slide
\* numbers forming the contiguous ascending sequence 1, 2, ..., n in list
\* order, whatever the generation service answered.
C15_SlideNumbersContiguous ==
    \A k \in 1..Len(slideReturns) : NumberedInOrder(slideReturns[k])

\* C15, what the stage does guarantee: the notes of the returned slides are
\* empty.
C15_NotesEmptied ==
    \A k \in 1..Len(slideReturns) :
        \A i \in 1..Len(slideReturns[k]) :
            slideReturns[k][i].speaker_notes = ""

\* C15 divergence reached: the stage returned a list numbering two slides
\* alike and starting after 1, and the run exported the deck built from it.
C15_WitnessDuplicateNumbers ==
    /\ pc = "done"
    /\ Len(slidesWithImages) = 3
    /\ slidesWithImages[1].slide_number = 3
    /\ slidesWithImages[2].slide_number = 3
    /\ slidesWithImages[3].slide_number = 1
    /\ slidesWithImages = WithImages(slides, {i \in 1..3 :
                                        slidesWithImages[i].image_url # NoImage})

\* The notes stage has returned.
NotesReturned == calls.notes >= 1

\* The notes the merge gives a slide number: those of the last entry of the
\* answer carrying that number, "" when there is none.
NotesOfNumber(notes, number) ==
    LET matching == {k \in 1..Len(notes) : notes[k].slide_number = number}
    IN  IF matching = {} THEN ""
        ELSE notes[CHOOSE k \in matching : \A j \in matching : j <= k].speaker_notes

\* C16: the notes stage never fails the run and changes nothing of the
\* slide list but the speaker notes: length, order, slide numbers, titles,
\* bullets and image queries are those of its input; after a failed notes
\* call the slides are the input slides; otherwise each slide carries the
\* notes of the entry with its slide_number, "" when there is none.
C16_NotesFailSoftMerge ==
    /\ raisedBy # "notes"
    /\ NotesReturned =>
         /\ notesAnswer # NotCalled
         /\ pc = "images" => outcome = "running"
         /\ Len(slides) = Len(notesInput)
         /\ \A i \in 1..Len(slides) :
              /\ slides[i].slide_number = notesInput[i].slide_number
              /\ slides[i].title = notesInput[i].title
              /\ slides[i].bullet_points = notesInput[i].bullet_points
              /\ slides[i].image_query = notesInput[i].image_query
              /\ slides[i].speaker_notes =
                   IF Failed(notesAnswer) THEN notesInput[i].speaker_notes
                   ELSE NotesOfNumber(notesAnswer.val, slides[i].slide_number)
         /\ Failed(notesAnswer) => slides = notesInput

\* C16 witness: the answer lists the slides in another order than the deck
\* and has no entry for the first slide: the first slide has empty notes,
\* the others the notes of their own number, and the run went on.
C16_Witness ==
    /\ NotesReturned
    /\ ~Failed(notesAnswer)
    /\ Len(slides) >= 3
    /\ Len(notesAnswer.val) = Len(slides)
    /\ notesAnswer.val[2].slide_number = slides[Len(slides)].slide_number
    /\ slides[1].speaker_notes = ""
    /\ slides[2].speaker_notes # ""
    /\ slides[3].speaker_notes # slides[2].speaker_notes
    /\ pc = "done"

\* C16 witness, failed call: the notes service raised, the slides went on
\* as they were and the run ended well.
C16_WitnessFailed ==
    /\ notesAnswer.err = "ServiceError"
    /\ Len(slides) >= 1
    /\ slides = notesInput
    /\ pc = "done"

\* C16 witness, two slides of one number: both carry the notes of the last
\* entry with that number.
C16_WitnessSameNumber ==
    /\ NotesReturned
    /\ ~Failed(notesAnswer)
    /\ Len(slides) = 3
    /\ Len(notesAnswer.val) = 3
    /\ slides[1].slide_number = slides[2].slide_number
    /\ slides[1].speaker_notes = notesAnswer.val[2].speaker_notes
    /\ slides[2].speaker_notes = notesAnswer.val[2].speaker_notes
    /\ notesAnswer.val[1].speaker_notes # notesAnswer.val[2].speaker_notes

\* The labels _run_async reports when it enters a stage, in the order of
\* the code: outline, manuscript, review, fact-check, slide extraction,
\* notes, image enrichment, export.
StageLabels ==
    <<"Planning structure", "Writing manuscript", "Reviewing manuscript",
      "Fact-checking", "Creating slides", "Adding speaker notes",
      "Selecting images", "Exporting files">>

\* The stage entries among the progress events, in the order reported.
StageStarts ==
    SelectSeq(progress,
              LAMBDA e : \E k \in 1..Len(StageLabels) : e[1] = StageLabels[k])

\* How many calls of stage k's collaborator have ended (for the image and
\* export stages: whether their product or failure is there).
StageCalls(k) ==
    CASE k = 1 -> calls.outline
      [] k = 2 -> calls.script
      [] k = 3 -> calls.evaluate
      [] k = 4 -> calls.fact_check
      [] k = 5 -> calls.slides
      [] k = 6 -> calls.notes
      [] k = 7 -> IF slidesWithImages = <<>> THEN 0 ELSE 1
      [] OTHER -> IF result = NoResult /\ raisedBy # "export" THEN 0 ELSE 1

\* Stage k has handed its product to the run.
StageReturned(k) ==
    CASE k = 1 -> calls.outline \in 1..2 /\ raisedBy \notin {"start", "outline_retry"}
                  /\ pc \notin {"start", "outline_retry"}
      [] k = 2 -> calls.script = 1 /\ draft # NoManuscript
      [] k = 3 -> calls.evaluate = 1 /\ score # NoScore
                  /\ manuscript # NoManuscript
      [] k = 4 -> calls.fact_check = 1 /\ raisedBy # "reviewed"
      [] k = 5 -> calls.slides \in 1..2 /\ Len(slideReturns) = calls.slides
                  /\ pc # "slides_retry" /\ raisedBy \notin {"slides", "slides_retry"}
      [] k = 6 -> calls.notes = 1 /\ notesAnswer # NotCalled
      [] k = 7 -> Len(slidesWithImages) = Len(slides)
      [] OTHER -> result.output_path # ""

\* C17: the stages start in the fixed order outline, manuscript, review,
\* fact-check, slide extraction, notes, image enrichment, export, each at
\* most once; a stage has started only if the one before it has returned,
\* and no call of a stage is made before the stage has started; a run that
\* reports success has completed all eight stages.
C17_StagesInOrder ==
    LET starts == StageStarts
        started == Len(starts)
    IN
    /\ started <= Len(StageLabels)
    /\ \A k \in 1..started : starts[k][1] = StageLabels[k]
    /\ \A k \in 2..started : StageReturned(k - 1)
    /\ \A k \in (started + 1)..Len(StageLabels) : StageCalls(k) = 0
    /\ (outcome = "success" \/ pc = "done") =>
         /\ outcome = "success" /\ pc = "done"
         /\ started = Len(StageLabels)
         /\ \A k \in 1..Len(StageLabels) : StageReturned(k)

\* C17 witness: a run that retried the outline and the slides, rewrote the
\* manuscript and ended in success.
C17_Witness ==
    /\ outcome = "success"
    /\ calls.outline = 2
    /\ calls.rewrite = 1
    /\ calls.slides = 2
    /\ Len(StageStarts) = 8
    /\ Len(progress) = 11

\* C17 witness, aborted run: the slide stage failed and nothing after it
\* started.
C17_WitnessAborted ==
    /\ pc = "failed"
    /\ raisedBy = "slides_retry"
    /\ Len(StageStarts) = 5
    /\ calls.notes = 0

Done == <<"Done", 100>>

DoneEvents == {i \in 1..Len(progress) : progress[i] = Done}

\* The percentages of the trace lie in 0..100 and never decrease.
PercentsAscend ==
    /\ \A i \in 1..Len(progress) : progress[i][2] \in 0..100
    /\ \A i \in 1..(Len(progress) - 1) : progress[i][2] <= progress[i + 1][2]

\* A run that succeeded reported ("Done", 100) once, as its last event.
SuccessEndsWithDone ==
    outcome = "success" => DoneEvents = {Len(progress)} /\ Len(progress) >= 1

\* C18: the percentages of the progress events lie in 0..100 and never
\* decrease, the slide-count retry event included; a successful run emits
\* ("Done", 100) exactly once, as its last event; a run that fails never
\* emits ("Done", 100).
C18_ProgressTrace ==
    /\ PercentsAscend
    /\ SuccessEndsWithDone
    /\ pc = "failed" => DoneEvents = {}

\* C18, the part that holds whatever the callback does: ascending
\* percentages, and success only with ("Done", 100) last.
C18_TraceAscends == PercentsAscend /\ SuccessEndsWithDone

\* C18 divergence reached: every stage returned, both files were written,
\* the callback was called with ("Done", 100) and raised: the run failed
\* with ("Done", 100) as the last event of its trace.
C18_WitnessFailedAfterDone ==
    /\ pc = "failed"
    /\ raisedBy = "observer"
    /\ Len(progress) = 11
    /\ progress[Len(progress)] = Done
    /\ result.output_path # ""
    /\ result.script_path # ""

\* C19: progress reporting is advisory: no run ends because of what the
\* progress callback does; a run fails only where a stage's own call
\* failed, so stages and outcome are those of the run without the callback.
C19_ObserverAdvisory ==
    /\ raisedBy # "observer"
    /\ pc = "failed" => StageCalls(Len(StageStarts)) >= 1

\* C19 divergence reached: the callback raised on the first event; no stage
\* made its call and the caller got the callback's exception as it is.
C19_WitnessObserverAborts ==
    /\ observer = "raises"
    /\ pc = "failed"
    /\ raisedBy = "observer"
    /\ outcome = "RuntimeError"
    /\ progress = <<<<"Planning structure", 5>>>>
    /\ calls = NoCalls

\* C19 divergence, second case: a ValueError of the callback reaches the
\* caller as a PresentationAgentError, as if the generation service had
\* answered badly, after the notes stage had returned.
C19_WitnessObserverWrapped ==
    /\ raisedBy = "observer"
    /\ outcome = "PresentationAgentError"
    /\ calls.notes = 1
    /\ progress[Len(progress)] = <<"Selecting images", 80>>
    /\ slidesWithImages = <<>>

\* The run was ended by a failed call of the outline, manuscript or slide
\* stage.
GenerationStages == {"start", "outline_retry", "script", "slides", "slides_retry"}

\* A run ended by a generation stage started nothing after that stage and
\* exported nothing.
GenerationFailureAborts ==
    raisedBy \in GenerationStages =>
        /\ pc = "failed"
        /\ Len(StageStarts) = (CASE raisedBy \in {"start", "outline_retry"} -> 1
                                 [] raisedBy = "script" -> 2
                                 [] OTHER -> 5)
        /\ \A k \in (Len(StageStarts) + 1)..Len(StageLabels) : StageCalls(k) = 0
        /\ result = NoResult

\* C20: when the outline, manuscript or slide stage fails, by a service
\* error or by a response that does not parse or conform, the run is
\* aborted, nothing later runs, nothing is exported, and the caller
\* receives a PresentationAgentError and no other exception type.
C20_GenerationFailureWrapped ==
    /\ GenerationFailureAborts
    /\ raisedBy \in GenerationStages => outcome = "PresentationAgentError"

\* C20, the part that holds: the run is aborted with nothing exported, and
\* a response that does not parse or conform reaches the caller as a
\* PresentationAgentError.
C20_Aborts ==
    /\ GenerationFailureAborts
    /\ (raisedBy \in GenerationStages /\ outcome # "PresentationAgentError") =>
           outcome = "ServiceError"

\* C20 divergence reached: the second slide call failed with a service
\* error and the caller received that error, not a PresentationAgentError.
C20_WitnessRawServiceError ==
    /\ pc = "failed"
    /\ raisedBy = "slides_retry"
    /\ outcome = "ServiceError"
    /\ calls.slides = 2
    /\ calls.notes = 0

\* C21: a first outline attempt that fails, by a service error or by a
\* response that does not parse or conform, is followed by exactly one
\* further attempt; the run goes on with the outline of that attempt when
\* it succeeds and fails when it fails; the outline call is never made more
\* than twice.
C21_OutlineRetriedOnce ==
    /\ calls.outline <= 2
    /\ raisedBy # "start"
    /\ raisedBy = "outline_retry" => (pc = "failed" /\ calls.outline = 2)
    /\ pc = "outline_retry" => calls.outline = 1
    /\ calls.script >= 1 => calls.outline \in 1..2

\* C21, the part that holds: at most two attempts, the second one only
\* pending or made after the first, and a run ending at the first attempt
\* ended by a service error.
C21_RetryAfterValueError ==
    /\ calls.outline <= 2
    /\ raisedBy = "start" =>
         (pc = "failed" /\ calls.outline = 1 /\ outcome = "ServiceError")
    /\ raisedBy = "outline_retry" => (pc = "failed" /\ calls.outline = 2)
    /\ pc = "outline_retry" => calls.outline = 1
    /\ calls.script >= 1 => calls.outline \in 1..2

\* C21 divergence reached: the first attempt failed with a service error and
\* the run ended there, after one outline call.
C21_WitnessNoRetry ==
    /\ pc = "failed"
    /\ raisedBy = "start"
    /\ outcome = "ServiceError"
    /\ calls.outline = 1
    /\ progress = <<<<"Planning structure", 5>>>>

\* C21, the retry that is made: two outline calls and the manuscript stage
\* entered.
C21_WitnessRetried ==
    /\ calls.outline = 2
    /\ calls.script = 1
    /\ draft # NoManuscript

\* C22: export failures are handled asymmetrically.  When writing the
\* presentation fails the run fails there, with no result and no script
\* export; the script export is entered only with the presentation
\* written; whether the script export succeeds or fails, the run then
\* succeeds, reports ("Done", 100), and returns the presentation's path,
\* slide_count and images_included as the exporter gave them, with a
\* script path only when the script was written.
C22_ExportAsymmetry ==
    [][ /\ (pc = "export" /\ pc' = "failed") =>
              /\ outcome' # "success"
              /\ result' = NoResult
              /\ DoneEvents' = {}
        /\ (pc # "script_export" /\ pc' = "script_export") =>
              /\ pc = "export"
              /\ result'.output_path # ""
              /\ result'.script_path = ""
              /\ result'.slide_count = Len(slidesWithImages) + 1
        /\ pc = "script_export" =>
              /\ pc' = "done"
              /\ outcome' = "success"
              /\ progress' = Append(progress, Done)
              /\ result'.output_path = result.output_path
              /\ result'.slide_count = result.slide_count
              /\ result'.images_included = result.images_included
              /\ result'.script_path \in {"", "deck_script.docx"}
      ]_vars

\* C22 witness: the presentation was written with a picture in it, the
\* script export failed, and the run succeeded without a script path.
C22_Witness ==
    /\ pc = "done"
    /\ outcome = "success"
    /\ result.output_path # ""
    /\ result.script_path = ""
    /\ result.images_included >= 1
    /\ progress[Len(progress)] = Done

\* C22 witness, fatal side: writing the presentation failed and the run
\* ended without a result.
C22_WitnessFatal ==
    /\ pc = "failed"
    /\ raisedBy = "export"
    /\ outcome = "OSError"
    /\ result = NoResult


\* C28: when the evaluation succeeds with a score below 8 and the single
\* rewrite call fails, review_and_improve neither raises nor retries: it
\* returns the original manuscript unchanged with score 0, not the score of
\* the evaluation (whenever that is not 0 itself), and the run goes on to
\* fact-checking.
C28_RewriteFailSoft ==
    (EvaluatedBelowThreshold /\ rewritten.err \in LLMFailures) =>
        /\ calls.evaluate = 1
        /\ calls.rewrite = 1
        /\ ReviewReturned
        /\ raisedBy \notin {"review", "rewrite"}
        /\ ReviewResult = draft
        /\ score = 0
        /\ evaluation.val # 0 => score # evaluation.val

\* The evaluation gave 7, the rewrite failed, and the draft went into the
\* fact check with score 0.
C28_Witness ==
    /\ ~Failed(evaluation)
    /\ evaluation.val = APPROVE_SCORE - 1
    /\ rewritten.err \in LLMFailures
    /\ calls.fact_check = 1
    /\ factInput = draft
    /\ score = 0

-----------------------------------------------------------------------------
(* Properties of apply_patches (checked under PatchSpec).                  *)

Patched == pphase \in {"patched", "repatched"}

SameContents(x, y) ==
    /\ Len(x.sections) = Len(y.sections)
    /\ \A i \in 1..Len(x.sections) : x.sections[i].content = y.sections[i].content

\* Some issue's non-empty original_text occurs in the text.
OriginalOccurs(content, issues) ==
    \E k \in 1..Len(issues) :
        /\ issues[k].original_text # <<>>
        /\ Contains(content, issues[k].original_text)

\* C6 as stated: patching is idempotent, for every manuscript M and every
\* non-empty report R apply_patches(apply_patches(M, R), R) has the same
\* section contents as apply_patches(M, R).
C6_Idempotent ==
    (pphase = "repatched" /\ pr.issues # <<>>) => SameContents(pout2, pout)

\* No issue's non-empty original_text is left anywhere in the manuscript.
NoOriginalLeft(m, report) ==
    \A i \in 1..Len(m.sections) : ~OriginalOccurs(m.sections[i].content, report.issues)

\* C6 amended: re-running the same non-empty report against the patched
\* manuscript changes nothing whenever the patched manuscript no longer holds
\* any issue's (non-empty) original_text.  Otherwise the second pass replaces
\* again: a further occurrence that the first pass left in place, or an
\* original_text that a corrected_text brought in.
C6_IdempotentWhenOriginalGone ==
    (pphase = "repatched" /\ pr.issues # <<>> /\ NoOriginalLeft(pout, pr))
        => SameContents(pout2, pout)

\* A report that did patch the manuscript, left no original_text behind, and
\* was applied a second time.
C6_Witness ==
    /\ pphase = "repatched"
    /\ pr.issues # <<>>
    /\ NoOriginalLeft(pout, pr)
    /\ ~SameContents(pout, pm)

\* The working content of section i after the first k issues of the report.
ContentAfter(i, k) == PatchContent(pm.sections[i].content, SubSeq(pr.issues, 1, k))

\* after is before with the leftmost occurrence of o, and nothing else, replaced by c.
LeftmostReplaced(before, after, o, c) ==
    \E p \in 1..Len(before) :
        /\ IsAt(before, o, p)
        /\ \A q \in 1..(p - 1) : ~IsAt(before, o, q)
        /\ after = SubSeq(before, 1, p - 1) \o c
                   \o SubSeq(before, p + Len(o), Len(before))

\* C7: for each section and each issue of the report, apply_patches replaces
\* at most one occurrence of the issue's original_text in that section, the
\* leftmost one; everything after it, later occurrences included, stays in
\* place.  An issue whose original_text is empty or absent from the working
\* content replaces nothing.
C7_ReplacesLeftmostOnce ==
    (Patched /\ pr.issues # <<>>) =>
        \A i \in 1..Len(pm.sections) :
            /\ pout.sections[i].content = ContentAfter(i, Len(pr.issues))
            /\ \A k \in 1..Len(pr.issues) :
                 LET before == ContentAfter(i, k - 1)
                     after == ContentAfter(i, k)
                     o == pr.issues[k].original_text
                 IN  IF o = <<>> \/ ~Contains(before, o)
                     THEN after = before
                     ELSE LeftmostReplaced(before, after, o,
                                           pr.issues[k].corrected_text)

\* Number of positions of s at which p occurs.
Occurrences(s, p) == Cardinality({i \in 1..Len(s) : IsAt(s, p, i)})

\* A one-issue report whose original_text occurred twice in a section: one
\* occurrence was replaced and the later one is still there.
C7_Witness ==
    /\ pphase = "patched"
    /\ Len(pr.issues) = 1
    /\ \E i \in 1..Len(pm.sections) :
         LET o == pr.issues[1].original_text IN
         /\ o # <<>>
         /\ Occurrences(pm.sections[i].content, o) >= 2
         /\ pout.sections[i].content # pm.sections[i].content
         /\ Contains(pout.sections[i].content, o)

\* The report with its k-th issue taken out.
WithoutIssue(report, k) ==
    [issues |-> SubSeq(report.issues, 1, k - 1)
                \o SubSeq(report.issues, k + 1, Len(report.issues))]

\* original_text is empty, or is a substring of no section of the manuscript.
Unlocatable(m, o) ==
    o = <<>> \/ \A i \in 1..Len(m.sections) : ~Contains(m.sections[i].content, o)

\* Title, number, order and names of the sections are those of the input.
FramePreserved ==
    /\ pout.title = pm.title
    /\ Len(pout.sections) = Len(pm.sections)
    /\ \A i \in 1..Len(pm.sections) : pout.sections[i].name = pm.sections[i].name

\* A section holding no issue's original_text keeps its content.
UnmatchedSectionsKept ==
    \A i \in 1..Len(pm.sections) :
        ~OriginalOccurs(pm.sections[i].content, pr.issues)
            => pout.sections[i].content = pm.sections[i].content

\* An issue whose original_text is empty or in no section of the manuscript
\* has no effect: the result is that of the report without it.
UnlocatableIssuesInert ==
    \A k \in 1..Len(pr.issues) :
        Unlocatable(pm, pr.issues[k].original_text)
            => SameContents(apply_patches(pm, WithoutIssue(pr, k)), pout)

EmptyReportIdentity == pr.issues = <<>> => pout = pm

\* The parts of C8 that the code keeps.
PatchFrameKept ==
    Patched => FramePreserved /\ UnmatchedSectionsKept /\ EmptyReportIdentity

\* apply_patches never assigns to its argument.
InputNotMutated == [][pm' = pm]_vars

\* C8: apply_patches changes nothing but matched spans: title, number, order
\* and names of the sections are preserved, a section holding no issue's
\* original_text keeps its content, an issue with empty or unlocatable
\* original_text has no effect, and with an empty report the output equals
\* the input manuscript.
C8_OnlyMatchedSpansChange ==
    Patched => /\ FramePreserved
               /\ UnmatchedSectionsKept
               /\ UnlocatableIssuesInert
               /\ EmptyReportIdentity

\* An issue with an empty original_text, alone in its report, applied.
C8_WitnessInert ==
    /\ pphase = "patched"
    /\ Len(pr.issues) = 1
    /\ pr.issues[1].original_text = <<>>
    /\ pr.issues[1].corrected_text # <<>>
    /\ Len(pm.sections) = 2
    /\ pout = pm


\* The report with its issues in the opposite order.
ReversedReport(report) ==
    [issues |-> [k \in 1..Len(report.issues) |->
                    report.issues[Len(report.issues) + 1 - k]]]

\* The content section text gets from one issue alone.
AloneOn(text, issue) == PatchContent(text, <<issue>>)

\* Issue k of the report acts on section i as it would on the section's
\* original content: it replaces in the working content exactly when its
\* original_text is non-empty and occurs in the original content.
ActsAsOnOriginal(i, k) ==
    LET orig == pm.sections[i].content
        o == pr.issues[k].original_text
    IN  (ContentAfter(i, k) # ContentAfter(i, k - 1))
            <=> (AloneOn(orig, pr.issues[k]) # orig)

\* An issue whose original_text does not occur in the original content of
\* section i leaves the working content of that section as it is.
AbsentFromOriginalIsNoOp(i, k) ==
    ~Contains(pm.sections[i].content, pr.issues[k].original_text)
        => ContentAfter(i, k) = ContentAfter(i, k - 1)

\* C24: the issues of one report are applied independently of each other:
\* whether an issue's replacement is made in a section depends only on that
\* section's original content and on that issue, not on the other issues or
\* on their order (the reversed report gives the same contents), and an issue
\* whose original_text does not occur in the original section content is a
\* no-op for that section.
C24_IssuesIndependent ==
    Patched =>
        /\ \A i \in 1..Len(pm.sections) : \A k \in 1..Len(pr.issues) :
             ActsAsOnOriginal(i, k) /\ AbsentFromOriginalIsNoOp(i, k)
        /\ SameContents(apply_patches(pm, ReversedReport(pr)), pout)

\* What the code keeps: every issue acts on the working content the earlier
\* issues of the report left, as it would alone on that content; an issue
\* whose original_text is empty or absent from that working content is a
\* no-op; a one-issue report acts on the original content.
C24_IssuesChained ==
    Patched =>
        \A i \in 1..Len(pm.sections) :
            /\ \A k \in 1..Len(pr.issues) :
                 ContentAfter(i, k) = AloneOn(ContentAfter(i, k - 1), pr.issues[k])
            /\ Len(pr.issues) = 1
                 => pout.sections[i].content = AloneOn(pm.sections[i].content, pr.issues[1])

\* Section "a" with the report [a -> b, b -> ""]: the second issue's
\* original_text is not in the original content, yet the section comes out
\* empty.
C24_WitnessChained ==
    /\ pphase = "patched"
    /\ Len(pm.sections) = 1
    /\ pm.sections[1].content = <<"a">>
    /\ pr.issues = <<Issue(<<"a">>, <<"b">>), Issue(<<"b">>, <<>>)>>
    /\ pout.sections[1].content = <<>>

\* Two issues that do not touch each other's text: both are applied.
C24_WitnessIndependent ==
    /\ pphase = "patched"
    /\ Len(pm.sections) = 1
    /\ pm.sections[1].content = <<"a", "b">>
    /\ pr.issues = <<Issue(<<"b">>, <<>>), Issue(<<"a">>, <<"a", "a">>)>>
    /\ pout.sections[1].content = <<"a", "a">>

-----------------------------------------------------------------------------
(* Properties of enrich_slides_with_images (checked under ImageSpec).      *)

ImagesReturned == ipc = "returned"

\* One entry a slide, in input order, with that slide's own fields.
OneEntryPerSlide ==
    /\ Len(enriched) = Len(islides)
    /\ \A i \in 1..Len(islides) :
         /\ enriched[i].slide_number = islides[i].slide_number
         /\ enriched[i].title = islides[i].title
         /\ enriched[i].bullet_points = islides[i].bullet_points
         /\ enriched[i].speaker_notes = islides[i].speaker_notes

Searched(i) == tasks[i].found # NotCalled
SearchFailed(i) == Searched(i) /\ Failed(tasks[i].found)

\* The search answered, and none of the results looked at has a URL.
NoCandidates(i) ==
    /\ Searched(i) /\ ~Failed(tasks[i].found)
    /\ \A k \in 1..Len(tasks[i].found.val) :
         k <= RESULTS_KEPT => tasks[i].found.val[k].url = ""

\* Every candidate went to the evaluator and every evaluation failed.
EvaluationFailed(i) ==
    /\ tasks[i].judged # <<>>
    /\ \A k \in 1..Len(tasks[i].judged) : ~tasks[i].judged[k].ok

SomeEvaluation(i) == \E k \in 1..Len(tasks[i].judged) : tasks[i].judged[k].ok

\* C9 as stated: one entry per input slide, in input order, with that
\* slide's fields, and a slide whose search or evaluation fails, or finds no
\* candidates, has image_url null.
C9_FailureGivesNoImage ==
    ImagesReturned =>
        /\ OneEntryPerSlide
        /\ \A i \in 1..Len(islides) :
             (SearchFailed(i) \/ NoCandidates(i) \/ EvaluationFailed(i))
                 => enriched[i].image_url = NoImage

Least(S) == CHOOSE k \in S : \A j \in S : k <= j

\* The metadata choice among the results looked at: the first landscape
\* result at least MIN_WIDTH wide, else the first result with a URL.
FallbackUrl(results) ==
    LET kept == {k \in 1..Len(results) : k <= RESULTS_KEPT /\ results[k].url # ""}
        good == {k \in kept : /\ results[k].width >= results[k].height
                              /\ results[k].width >= MIN_WIDTH}
    IN  results[Least(IF good # {} THEN good ELSE kept)].url

\* The vision choice: the first candidate, among those evaluated, of the
\* highest score, the first slide counting 2 more for a background image.
VisionUrl(i) ==
    LET candidates == parse_candidates(KeptResults(tasks[i].found))
        judged == tasks[i].judged
        Rank(k) == VisionKey(judged[k], i = 1)
        best == Least({k \in 1..Len(judged) :
                         /\ judged[k].ok
                         /\ \A j \in 1..Len(judged) :
                              judged[j].ok => ~TupleLess(Rank(k), Rank(j))})
    IN  candidates[best].url

\* What slide i's own query, search answer and evaluations determine.
OwnImage(i) ==
    IF ~Searched(i) \/ SearchFailed(i) \/ NoCandidates(i) THEN NoImage
    ELSE IF SomeEvaluation(i) THEN VisionUrl(i)
    ELSE FallbackUrl(tasks[i].found.val)

\* C9 amended: under every interleaving and completion order of the per-slide
\* tasks the list returned has one entry per input slide, in input order,
\* with that slide's fields; image_url is null for a slide without query,
\* whose search fails or finds no candidate; a slide whose evaluations all
\* fail (or that has no evaluator) gets the image chosen by metadata, not
\* null; and every slide's image_url is determined by its own search answer
\* and evaluations alone, whatever happens to the other slides.
C9_FailuresIsolated ==
    ImagesReturned =>
        /\ OneEntryPerSlide
        /\ \A i \in 1..Len(islides) :
             /\ enriched[i].image_url = OwnImage(i)
             /\ (SearchFailed(i) \/ NoCandidates(i)) => enriched[i].image_url = NoImage
             /\ EvaluationFailed(i) => Truthy(enriched[i].image_url)

\* The second slide's task completed first with every evaluation failed and
\* got the metadata image; the first slide's search failed and it has none.
C9_Witness ==
    /\ ImagesReturned
    /\ Len(islides) = 2
    /\ completed = <<2, 1>>
    /\ SearchFailed(1) /\ enriched[1].image_url = NoImage
    /\ EvaluationFailed(2) /\ Truthy(enriched[2].image_url)


\* The candidates of slide i that went to the vision evaluator, and the
\* positions of those that came back with an evaluation.
CandidatesOf(i) == parse_candidates(KeptResults(tasks[i].found))

EvaluatedOf(i) ==
    {j \in 1..Len(tasks[i].judged) : tasks[i].judged[j].ok}

\* score + 2 * suitable_as_background on the first slide of the deck, score
\* alone on every other slide.
VisionValue(i, ev) ==
    ev.score + (IF i = 1 /\ ev.suitable_as_background THEN 2 ELSE 0)

\* C26: when at least one candidate of a slide received a vision
\* evaluation, the selected image is one of the evaluated candidates that
\* maximizes score + 2 * suitable_as_background on the first slide of the
\* deck and score alone on every other slide; a candidate whose evaluation
\* failed is never selected on this path.
C26_BestByVision ==
    ImagesReturned =>
        \A i \in 1..Len(islides) :
            EvaluatedOf(i) # {} =>
                \E j \in EvaluatedOf(i) :
                    /\ enriched[i].image_url = CandidatesOf(i)[j].url
                    /\ \A k \in EvaluatedOf(i) :
                         VisionValue(i, tasks[i].judged[k])
                             <= VisionValue(i, tasks[i].judged[j])

\* Both slides found the same two candidates with the same evaluations, a
\* lower score fit for a background and a higher score that is not: the
\* first slide took the former, the second the latter.
C26_Witness ==
    /\ ImagesReturned
    /\ Len(islides) = 2
    /\ \A i \in 1..2 :
         /\ tasks[i].found = Ok(<<Small, Wide>>)
         /\ tasks[i].judged = <<Evaluation(5, TRUE), Evaluation(6, FALSE)>>
    /\ enriched[1].image_url = "small"
    /\ enriched[2].image_url = "wide"

\* The candidate with the best score failed its evaluation and the other
\* one was selected.
C26_WitnessFailedNotSelected ==
    /\ ImagesReturned
    /\ Len(islides) >= 1
    /\ tasks[1].found = Ok(<<Small, Wide>>)
    /\ tasks[1].judged = <<Evaluation(5, TRUE), NoEvaluation>>
    /\ enriched[1].image_url = "small"

\* The first entry of results satisfying Test, None when there is none.
FirstUrlWhere(results, Test(_)) ==
    IF \E j \in 1..Len(results) : Test(results[j])
    THEN LET first == CHOOSE j \in 1..Len(results) :
                          /\ Test(results[j])
                          /\ \A k \in 1..(j - 1) : ~Test(results[k])
         IN  results[first].url
    ELSE NoImage

\* Landscape, at least 800 pixels wide, with a usable URL.
PreferredPhoto(r) == r.width >= r.height /\ r.width >= MIN_WIDTH /\ HasUrl(r)

\* The image chosen by metadata among the results in rank order.
ChosenByMetadata(results) ==
    IF \E j \in 1..Len(results) : PreferredPhoto(results[j])
    THEN FirstUrlWhere(results, PreferredPhoto)
    ELSE FirstUrlWhere(results, HasUrl)

\* The search of slide i answered, and no evaluation came back: there is no
\* evaluator, or nothing to evaluate, or every evaluation failed.
DecidedByMetadata(i) ==
    /\ Strip(islides[i].image_query) # ""
    /\ ~Failed(tasks[i].found)
    /\ EvaluatedOf(i) = {}

\* C27: when no vision evaluator is configured or no candidate obtained an
\* evaluation, the image chosen for a query is the first search result in
\* rank order that is landscape (width >= height), at least 800 pixels wide
\* and has a usable URL; if no result qualifies, the first result in rank
\* order that has a usable URL; if no result has a usable URL, no image.
\* The search results are those the code keeps, the first RESULTS_KEPT of
\* the answer to a request for that many.
C27_MetadataFallback ==
    ImagesReturned =>
        \A i \in 1..Len(islides) :
            DecidedByMetadata(i) =>
                enriched[i].image_url = ChosenByMetadata(KeptResults(tasks[i].found))

\* Without evaluator the second result was chosen, the first one being too
\* narrow.
C27_Witness ==
    /\ ImagesReturned
    /\ ~hasLlm
    /\ Len(islides) >= 1
    /\ tasks[1].found = Ok(<<Small, Wide>>)
    /\ enriched[1].image_url = "wide"

\* Every evaluation failed and no kept result qualifies: the first result
\* with a URL, a portrait photo, was chosen.
C27_WitnessNoneQualifies ==
    /\ ImagesReturned
    /\ hasLlm
    /\ Len(islides) >= 1
    /\ tasks[1].found = Ok(<<Portrait, Small, NoUrl, Wide>>)
    /\ tasks[1].judged # <<>>
    /\ EvaluatedOf(1) = {}
    /\ enriched[1].image_url = "portrait"

\* The only result has no URL: no image.
C27_WitnessNoUrl ==
    /\ ImagesReturned
    /\ Len(islides) >= 1
    /\ tasks[1].found = Ok(<<NoUrl>>)
    /\ enriched[1].image_url = NoImage

-----------------------------------------------------------------------------
(* Properties of select_layout (checked under LayoutSpec).                 *)

\* The first-match-wins table over (slide_index, total_slides, has_image,
\* bullet_count).
LayoutTable(slide_index, total_slides, has_image, bullet_count) ==
    CASE slide_index = 0 /\ has_image -> "hero_background"
      [] slide_index = 0 /\ ~has_image -> "bold_section_divider"
      [] slide_index # 0 /\ slide_index = total_slides - 1 -> "conclusion"
      [] OTHER ->
           CASE has_image /\ bullet_count <= 2 -> "hero_right"
             [] has_image /\ bullet_count > 2 -> "two_column"
             [] ~has_image /\ bullet_count >= 4 -> "card_layout"
             [] ~has_image /\ bullet_count <= 2 -> "minimal_text"
             [] ~has_image /\ bullet_count = 3 -> "accent_left_layout"

IsLastSlide == largs.total_slides >= 1 /\ largs.slide_index = largs.total_slides - 1

\* C11 as stated: for every deck size total_slides >= 1 the last slide
\* (slide_index = total_slides - 1) is given CONCLUSION, whatever its image
\* and bullet content.
C11_LastIsConclusion ==
    (layout # "none" /\ IsLastSlide) => layout = "conclusion"

\* C11 amended: in every deck of two or more slides the last slide is given
\* CONCLUSION whatever its image and bullets; the only slide of a one-slide
\* deck is the first slide too, and the first-slide rule decides
\* (HERO_BACKGROUND with an image, BOLD_SECTION_DIVIDER without).
C11_LastIsConclusionFromTwo ==
    (layout # "none" /\ IsLastSlide) =>
        IF largs.total_slides >= 2 THEN layout = "conclusion"
        ELSE layout = IF Truthy(largs.slide.image_url)
                      THEN "hero_background" ELSE "bold_section_divider"

\* The last of three slides, with an image and four bullets, laid out.
C11_Witness ==
    /\ layout = "conclusion"
    /\ largs.total_slides = 3 /\ largs.slide_index = 2
    /\ Truthy(largs.slide.image_url)
    /\ Len(largs.slide.bullet_points) = 4


\* The slide is neither the first nor the last of the deck.
IsMiddleSlide ==
    /\ largs.slide_index # 0
    /\ largs.slide_index # largs.total_slides - 1

\* C25: select_layout never returns IMAGE_FOCUS, whatever slide_index,
\* total_slides, image and number of bullets: every slide that is neither
\* first nor last and has an image with at most 2 bullets (0 and 1 bullets
\* included) is given HERO_RIGHT.
C25_NeverImageFocus ==
    layout # "none" =>
        /\ layout # "image_focus"
        /\ (/\ IsMiddleSlide
            /\ Truthy(largs.slide.image_url)
            /\ Len(largs.slide.bullet_points) <= 2) => layout = "hero_right"

\* A slide in the middle of a deck of four, with an image and no bullet at
\* all: the best case for IMAGE_FOCUS, given HERO_RIGHT.
C25_Witness ==
    /\ layout = "hero_right"
    /\ largs.slide_index = 2 /\ largs.total_slides = 4
    /\ largs.slide.image_url = "wide"
    /\ largs.slide.bullet_points = <<>>

-----------------------------------------------------------------------------
(* Properties of compute_presentation_targets (checked under TargetsSpec). *)

Computed == computed # NoTargets

\* C12: for every duration in 1..120, every audience and every optional
\* speaker profile, min_slides <= max_slides and min_slides >= 3.
C12_SlideRangeOrdered ==
    Computed => /\ computed.min_slides <= computed.max_slides
                /\ computed.min_slides >= 3

\* One minute, with a speaker profile: twice the duration is below the floor
\* of 3 and max_slides is lifted to min_slides.
C12_Witness ==
    /\ Computed
    /\ targs.duration_minutes = 1
    /\ targs.speaker_profile.given
    /\ computed.min_slides = 3 /\ computed.max_slides = 3

\* The audience, case aside, contains a term of the family.
HasTerm(audience, terms) ==
    \E k \in 1..Len(terms) : Contains(Lower(audience), terms[k])

ScenarioA ==
    (targs.duration_minutes = 5 /\ targs.audience = GeneralPublic)
        => computed = [wpm |-> 125, target_word_count |-> 625,
                       min_slides |-> 5, max_slides |-> 10]

\* C13 as stated: without a speaker profile wpm is 125 for an audience that
\* contains a slow-family term, 145 for an audience that contains a
\* fast-family term, 135 for every other audience; duration 5 with "general
\* public" yields wpm 125, 625 words, 5 to 10 slides.
C13_WpmByFamily ==
    (Computed /\ ~targs.speaker_profile.given) =>
        /\ HasTerm(targs.audience, SlowTerms) => computed.wpm = 125
        /\ HasTerm(targs.audience, FastTerms) => computed.wpm = 145
        /\ (~HasTerm(targs.audience, SlowTerms) /\ ~HasTerm(targs.audience, FastTerms))
               => computed.wpm = 135
        /\ ScenarioA

\* C13 amended: without a speaker profile wpm is 125 for an audience that
\* contains a slow-family term (whether or not it also contains a
\* fast-family term), 145 for an audience that contains a fast-family term
\* and no slow-family term, 135 for every other audience; matching ignores
\* case; duration 5 with "general public" yields wpm 125, 625 words, 5 to 10
\* slides.
C13_WpmSlowFamilyFirst ==
    (Computed /\ ~targs.speaker_profile.given) =>
        /\ HasTerm(targs.audience, SlowTerms) => computed.wpm = 125
        /\ (HasTerm(targs.audience, FastTerms) /\ ~HasTerm(targs.audience, SlowTerms))
               => computed.wpm = 145
        /\ (~HasTerm(targs.audience, SlowTerms) /\ ~HasTerm(targs.audience, FastTerms))
               => computed.wpm = 135
        /\ ScenarioA

\* An audience naming both families, computed without profile at the slow rate.
C13_Witness ==
    /\ Computed /\ ~targs.speaker_profile.given
    /\ HasTerm(targs.audience, SlowTerms) /\ HasTerm(targs.audience, FastTerms)
    /\ computed.wpm = 125

\* Scenario A computed.
C13_WitnessScenarioA ==
    /\ Computed
    /\ targs.duration_minutes = 5 /\ targs.audience = GeneralPublic
    /\ ~targs.speaker_profile.given
    /\ computed.target_word_count = 625

\* C14: the result satisfies target_word_count = duration_minutes * wpm,
\* min_slides = max(3, duration_minutes), max_slides = max(min_slides,
\* 2 * duration_minutes); for a fixed audience and profile the word count is
\* linear in the duration, and the same arguments give the same targets.
C14_TargetFormulas ==
    Computed =>
        LET d == targs.duration_minutes
            unit == compute_presentation_targets(1, targs.audience, targs.speaker_profile)
        IN  /\ computed.target_word_count = d * computed.wpm
            /\ computed.min_slides = (IF d >= 3 THEN d ELSE 3)
            /\ computed.max_slides = (IF 2 * d >= computed.min_slides
                                      THEN 2 * d ELSE computed.min_slides)
            /\ computed.wpm = unit.wpm
            /\ computed.target_word_count = d * unit.target_word_count
            /\ computed = compute_presentation_targets(d, targs.audience,
                                                       targs.speaker_profile)

\* The longest duration, an expert audience, a speaker under 18: the rate
\* is capped at 130 and the word count is 120 times it.
C14_Witness ==
    /\ Computed
    /\ targs.duration_minutes = MAX_DURATION
    /\ targs.audience = FastTerms[1]
    /\ targs.speaker_profile.given /\ targs.speaker_profile.age < 18
    /\ computed.wpm = 130
    /\ computed.target_word_count = 15600


-----------------------------------------------------------------------------
(* Properties of _add_picture_fit_centered (checked under FitSpec).        *)

\* The size of the image can be determined: PIL opens it and both sides are
\* positive.
SizeKnown == fargs.image.decodes /\ fargs.image.w_px > 0 /\ fargs.image.h_px > 0

\* The box in EMU times 5: a thousandth of an inch is 914.4 EMU.
Emu5(thousandths) == thousandths * 4572

Distance(a, b) == IF a >= b THEN a - b ELSE b - a

\* The lengths computed, before their conversion to EMU: inside the box,
\* in the ratio of the source, filling the box along one axis (the scale is
\* the smaller of the two quotients) and with equal margins on both sides.
FitExact(f) ==
    LET box_w == Thousandths(fargs.box.width)
        box_h == Thousandths(fargs.box.height)
        left == Thousandths(fargs.box.left)
        top == Thousandths(fargs.box.top)
    IN  /\ AtMost(f.fit_w, box_w)
        /\ AtMost(f.fit_h, box_h)
        /\ f.fit_w.num * f.fit_h.den * fargs.image.h_px
             = f.fit_h.num * f.fit_w.den * fargs.image.w_px
        /\ f.fit_w = box_w \/ f.fit_h = box_h
        /\ Minus(f.left_cen, left) = Minus(Plus(left, box_w), Plus(f.left_cen, f.fit_w))
        /\ Minus(f.top_cen, top) = Minus(Plus(top, box_h), Plus(f.top_cen, f.fit_h))

\* The picture added, in whole EMU: inside the box, each length less than
\* one EMU below the exact one, so that the ratio is the source's and the
\* margins are equal up to that truncation.
PictureInBox(p) ==
    LET left_margin == 5 * p.left - Emu5(fargs.box.left)
        right_margin == Emu5(fargs.box.left + fargs.box.width) - 5 * (p.left + p.width)
        top_margin == 5 * p.top - Emu5(fargs.box.top)
        bottom_margin == Emu5(fargs.box.top + fargs.box.height) - 5 * (p.top + p.height)
    IN  /\ p.width >= 0 /\ p.height >= 0
        /\ 5 * p.width <= Emu5(fargs.box.width)
        /\ 5 * p.height <= Emu5(fargs.box.height)
        /\ left_margin >= 0 /\ right_margin >= 0
        /\ top_margin >= 0 /\ bottom_margin >= 0
        /\ Distance(left_margin, right_margin) < 15
        /\ Distance(top_margin, bottom_margin) < 15
        /\ Distance(p.width * fargs.image.h_px, p.height * fargs.image.w_px)
             < Max(fargs.image.w_px, fargs.image.h_px)

\* C23: for every image with positive width and height and every target
\* box, the picture placed is no wider and no taller than the box, has the
\* width-to-height ratio of the source image (uniform scale
\* min(box_w/img_w, box_h/img_h)) and is centered in the box on both axes;
\* an image whose dimensions cannot be determined is not placed at all.
\* The lengths computed satisfy this exactly; the picture takes them
\* truncated to whole EMU.
C23_FitCentered ==
    fitted.done =>
        /\ ~SizeKnown => (~fitted.added /\ fitted.picture = <<>> /\ fitted.fit = <<>>)
        /\ SizeKnown => (fitted.fit # <<>> /\ FitExact(fitted.fit[1]))
        /\ fitted.added <=> fitted.picture # <<>>
        /\ fitted.added => (SizeKnown /\ PictureInBox(fitted.picture[1]))
        /\ (SizeKnown /\ ~fargs.addRaises) => fitted.added

\* An image of 4 by 3 pixels in the image area of HERO_RIGHT, which is
\* taller than wide: the picture fills the width of the box and sits in the
\* middle of its height.
C23_Witness ==
    /\ fitted.added
    /\ fargs.image = Image(TRUE, 4, 3)
    /\ fargs.box = ImageArea("hero_right")
    /\ fitted.picture[1].width = 6400800
    /\ fitted.picture[1].height = 4800600
    /\ fitted.picture[1].left = 5760720
    /\ fitted.picture[1].top = 1028700

\* An image that is higher than the whole slide is wide: the height is
\* filled.
C23_WitnessTall ==
    /\ fitted.added
    /\ fargs.image = Image(TRUE, 1, 5)
    /\ fargs.box = WholeSlide
    /\ fitted.picture[1].height = 6858000
    /\ fitted.picture[1].width = 1371600

\* An image without a size is not placed.
C23_WitnessNoSize ==
    /\ fitted.done
    /\ ~fitted.added
    /\ fargs.image.decodes
    /\ fargs.image.w_px = 0
    /\ ~fargs.addRaises


-----------------------------------------------------------------------------
(* Properties of _add_content_slide (checked under SlideSpec).             *)

\* The slide has an image that could not be put on it.
ImageFailed == Truthy(sargs.slide.image_url) /\ ~rendered.picture

\* The slide as it is written when its image is fetched and placed.
WithGoodImage ==
    add_content_slide(sargs.slide, sargs.slide_index, sargs.total_slides, GoodFetch)

\* The title box with the truncated title, and the notes when there are any.
TitleShown ==
    rendered.title = <<prepare_title(sargs.slide.title, TITLE_MAX_CHARS)>>

NotesAttached ==
    rendered.notes = IF sargs.slide.speaker_notes = "" THEN <<>>
                     ELSE <<sargs.slide.speaker_notes>>

\* But for the picture the slide is the one written with the image.
OnlyPictureLost ==
    /\ rendered.layout = WithGoodImage.layout
    /\ rendered.title = WithGoodImage.title
    /\ rendered.bullets = WithGoodImage.bullets
    /\ rendered.notes = WithGoodImage.notes

\* C29: every content slide written by the exporter shows its (truncated)
\* title in a visible text box and has its non-empty speaker notes attached,
\* whichever layout is selected and whether or not the image of the slide
\* can be downloaded and decoded; a failed image only removes the picture
\* from that slide.
C29_TitleAndNotesAlways ==
    rendered.done =>
        /\ TitleShown
        /\ NotesAttached
        /\ ImageFailed => OnlyPictureLost

\* What the code keeps: the notes are always attached, and on every slide
\* but a HERO_BACKGROUND slide whose image failed the title is shown and a
\* failed image removes the picture only.
C29_ExceptFailedHero ==
    rendered.done =>
        /\ NotesAttached
        /\ ~(rendered.layout = "hero_background" /\ ImageFailed) =>
             (TitleShown /\ (ImageFailed => OnlyPictureLost))
        /\ (rendered.layout = "hero_background" /\ ImageFailed) =>
             (rendered.title = <<>> /\ rendered.bullets = 0)

\* The first slide of a deck, with an image that cannot be downloaded: it
\* is written without title box and without bullets, with its notes.
C29_WitnessBareHero ==
    /\ rendered.done
    /\ sargs.slide_index = 0
    /\ sargs.slide.image_url = "wide"
    /\ sargs.fetch.raises
    /\ sargs.slide.title = Title(1, 5, 1)
    /\ Len(sargs.slide.bullet_points) = 2
    /\ sargs.slide.speaker_notes = "notes"
    /\ rendered.layout = "hero_background"
    /\ rendered.title = <<>>
    /\ rendered.bullets = 0
    /\ rendered.notes = <<"notes">>

\* A HERO_RIGHT slide whose image is no image: title, bullets and notes
\* are there, the picture is not.
C29_WitnessHeroRight ==
    /\ rendered.done
    /\ rendered.layout = "hero_right"
    /\ sargs.fetch = Fetch(FALSE, Undecodable, FALSE)
    /\ sargs.slide.title = Title(0, TITLE_MAX_CHARS + 1, 0)
    /\ rendered.title = <<TitleText(TITLE_MAX_CHARS - 1, TRUE)>>
    /\ rendered.bullets = 2
    /\ ~rendered.picture
    /\ rendered.notes = <<"notes">>


-----------------------------------------------------------------------------
(* Properties of the web front-end (checked under AppSpec).                *)

\* progress["status"] of the dict the session holds.
CurrentStatus == progressDicts[session_state.progress].status

\* The run shown: the last thread started on the progress dict of the
\* session (0 when there is none).
CurrentRun ==
    LET mine == {i \in 1..Len(threads) : threads[i].progress = session_state.progress}
    IN  IF mine = {} THEN 0 ELSE CHOOSE i \in mine : \A j \in mine : j <= i

\* files holds the presentation bytes, the manuscript entry (bytes or None),
\* slide_count and images_included of run r.
FilesOfRun(files, r) ==
    /\ r >= 1
    /\ files.ppt = r
    /\ files.docx \in {0, r}
    /\ files.slide_count = r
    /\ files.images_included = r

\* Whenever the status is "done" the holder of the session is complete,
\* and so are the files the page has read.
DoneHasFiles ==
    /\ CurrentStatus = "done" =>
         FilesOfRun(FilesRead(session_state, holderDicts), CurrentRun)
    /\ (page.pc = "ready" /\ page.status = "done" /\ CurrentStatus = "done") =>
         (page.files # <<>> /\ FilesOfRun(page.files[1], CurrentRun))

\* A thread that has not yet reported how its run ended.
Working(i) == threads[i].pc \notin {"percent", "step", "error_text", "finished"}

\* A submission made while the status is "running" starts no thread, and no
\* two threads are at work at the same time.
OneWorker ==
    /\ Cardinality({i \in 1..Len(threads) : Working(i)}) <= 1
    /\ CurrentStatus = "running" =>
         (CurrentRun >= 1 /\ Working(CurrentRun))

SubmitWhileRunningStartsNothing ==
    (page'.submissions # page.submissions /\ CurrentStatus = "running")
        => (threads' = threads /\ progressDicts' = progressDicts
            /\ holderDicts' = holderDicts)

RunMoves == {<<"idle", "running">>, <<"running", "done">>, <<"running", "error">>}

\* After "done" or "error": the form submitted again, or a reset button.
SessionMoves == {<<"done", "running">>, <<"error", "running">>,
                 <<"done", "idle">>, <<"error", "idle">>}

\* C30 as stated: under every interleaving of the background thread and
\* the polling UI, whenever the UI reads status "done" the result holder
\* already contains the presentation bytes, the manuscript entry,
\* slide_count and images_included of that run; the status only moves
\* idle -> running -> done or error; and a form submission made while the
\* status is "running" does not start a second worker.
C30_StatusOnlyForward ==
    [][/\ DoneHasFiles'
       /\ OneWorker'
       /\ SubmitWhileRunningStartsNothing
       /\ CurrentStatus' # CurrentStatus
            => <<CurrentStatus, CurrentStatus'>> \in RunMoves]_vars

\* C30 amended: as stated, except that the status does not only move
\* forward: within a run it moves idle -> running -> done or error, and
\* from "done" or "error" a further form submission moves it to "running"
\* again (the next run, on a cleared holder) and a reset button to "idle"
\* (a new progress dict).
C30_StatusPerRun ==
    [][/\ DoneHasFiles'
       /\ OneWorker'
       /\ SubmitWhileRunningStartsNothing
       /\ CurrentStatus' # CurrentStatus
            => <<CurrentStatus, CurrentStatus'>> \in RunMoves \cup SessionMoves
       /\ (<<CurrentStatus, CurrentStatus'>> \in SessionMoves
           /\ CurrentStatus' = "running")
            => (/\ Len(threads') = Len(threads) + 1
                /\ FilesRead(session_state', holderDicts')
                     = [ppt |-> 0, docx |-> 0, slide_count |-> 0,
                        images_included |-> 0])]_vars

\* The page has read "done" and shows the files of the second run, the
\* form having been submitted again after the first run was done.
C30_Witness ==
    /\ Len(threads) = 2
    /\ threads[1].progress = threads[2].progress
    /\ page.pc = "ready"
    /\ page.status = "done"
    /\ page.files # <<>>
    /\ page.files[1].ppt = 2
    /\ page.files[1].docx = 2

\* A submission made while the first run was at work: one thread only.
C30_WitnessIgnored ==
    /\ page.submissions = 2
    /\ Len(threads) = 1
    /\ threads[1].pc = "agent"
    /\ CurrentStatus = "running"

\* The second run is at work while the first thread has yet to write the
\* text of its error.
C30_WitnessAfterError ==
    /\ Len(threads) = 2
    /\ threads[1].pc = "error_text"
    /\ threads[2].pc = "agent"
    /\ CurrentStatus = "running"

=============================================================================
